---------------------------- MODULE Spec2Model ----------------------------
(***************************************************************************)
(* Model of the Bilibili_Math acquisition-and-enrichment pipeline:         *)
(*   - the in-memory task registry and its worker thread (app.py),         *)
(*   - the crawl loop (spider/bilibili_api.py: crawl, save_to_mysql),      *)
(*   - QualityScorer.score (core/quality_scorer.py),                       *)
(*   - TopicClassifier (core/topic_classifier.py),                         *)
(*   - RecommendEngine.recommend (core/recommend_engine.py).               *)
(* Text is a sequence of Unicode code points; a status is a string.        *)
(***************************************************************************)
EXTENDS Integers, Sequences, FiniteSets, TLC

(***************************************************************************)
(* Bounds of the model                                                     *)
(***************************************************************************)
\* longest task list a request submits
MaxTasks == 2
\* largest max_pages a request asks for (0 is asked for, too)
MaxPagesParam == 2
\* most items on one search page
MaxItems == 1
\* most pages a request asks for in all: its tasks times its max_pages
MaxSteps == 4

(***************************************************************************)
(* Program constants                                                       *)
(***************************************************************************)
MAX_PAGES == 15
\* build_wbi_mixin_key: the shortest usable img_key + sub_key, and the
\* length of the mixin key
MIXIN_SRC_LEN == 64
MIXIN_KEY_LEN == 32

Min(a, b) == IF a < b THEN a ELSE b
Max(a, b) == IF a > b THEN a ELSE b

\* The video identifiers ("bvid") the remote API answers with
Bvids == {"BV1"}
\* a search item without a "bvid"
NoBvid == ""

Range(s) == {s[i] : i \in 1 .. Len(s)}

VARIABLES
    \* ---- tasks[task_id] of app.py (one run) ----
    status,          \* "none" before create_spider_task, then task["status"]
    progress,        \* task["progress"]
    message,         \* task["message"]: "" or "exc" (str(exc))
    resultSet,       \* task["result"] was assigned by the worker
    flagCreated,     \* task["stop_flag"] exists
    flagSet,         \* stop_flag.is_set()
    \* ---- worker thread: run_spider_task and the crawl it calls ----
    pc,              \* position of the worker
    params,          \* the request's JSON body
    taskList, maxPages, mixinKey, totalSteps, stepsDone,
    hasResults,      \* all_results is not empty
    detailCache, tagCache,
    ti,              \* index of the current task in taskList
    page,            \* current page
    \* ---- cancel_spider_task handler ----
    cpc,             \* "idle", or "flagged" between lines 143 and 144
    \* ---- storage and remote API, as observed ----
    stored,          \* identifiers in table videos
    storedFrom,      \* by identifier, the <<task index, page>> whose batch
                     \* wrote its row last (<<0, 0>>: no page of this run)
    existing,        \* identifiers in table videos when the run was submitted
    enrichments,     \* identifiers in table video_enrichments
    \* ---- core/process_videos.py: the tables as the ORM reads them ----
    videoRows,       \* by identifier, the row of table videos
    enrichRows,      \* by identifier, the row of table video_enrichments
    passes,          \* how many runs of process_videos there were
    lastRun,         \* what the last step was: a run of process_videos and
                     \* how it went, or something else
    detailReqs,      \* detail requests issued, per identifier
    tagReqs,         \* tag requests issued, per identifier
    lastSearch,      \* <<task index, page>> of the last search request
    reports,         \* the calls of progress_cb in the worker's last step
                     \* that made any, in order
    \* ---- history ----
    lastRaised,      \* the page of the last search request raised
    prevSearch,      \* lastSearch before the last search request
    prevRaised,      \* lastRaised before the last search request
    pagesProcessed,  \* page iterations that went past their search request
                     \* with a page of items or an exception
    navResp,         \* the key-exchange response the run received
    cancelled,       \* a cancel request arrived
    cancelInTime,    \* a cancel request arrived before a terminal status
    cancelledPending,\* a cancel request arrived before the stop flag existed
    flagObserved,    \* the loop came to one of its tests of the stop flag
                     \* while the flag was set
    \* ---- table videos, row by row (save_to_mysql) ----
    tblCols,         \* the columns of the table
    tblRows,         \* the rows, by the value of their key column
    lastBatch,       \* the batch of the last call that committed, else <<>>
    lastValues,      \* by identifier, the item last committed for it
    \* ---- spider/utils.py and normalize_from_detail: one call ----
    utilIn,          \* the function called and its argument
    utilOut,         \* what the call gave
    \* ---- request_bili_data: one call over the session of crawl ----
    httpHistory,     \* what the GETs of the call met, in order
    httpSleeps,      \* what the transport waited before each retry
    httpOut,         \* "pending", "data", or the exception the call raised
    \* ---- QualityScorer ----
    scoreIn, scoreOut,
    \* ---- TopicClassifier ----
    clsIn, clsOut,
    \* ---- RecommendEngine ----
    recDb, recReq, recOut

registryVars == <<status, progress, message, resultSet, flagCreated, flagSet>>
loopVars == <<taskList, maxPages, mixinKey, totalSteps>>
runVars == <<stepsDone, hasResults, detailCache, tagCache, ti, page>>
envVars == <<stored, storedFrom, detailReqs, tagReqs>>
searchHist == <<lastSearch, lastRaised, prevSearch, prevRaised, pagesProcessed>>
histVars == <<searchHist, flagObserved>>
cancelVars == <<cpc, cancelled, cancelInTime, cancelledPending>>
crawlVars == <<registryVars, pc, params, loopVars, runVars, envVars, existing,
               reports, histVars, navResp, cancelVars>>
scoreVars == <<scoreIn, scoreOut>>
clsVars == <<clsIn, clsOut>>
recVars == <<recDb, recReq, recOut>>
offlineVars == <<enrichments, videoRows, enrichRows, passes, lastRun>>
tableVars == <<tblCols, tblRows, lastBatch, lastValues>>
utilVars == <<utilIn, utilOut>>
httpVars == <<httpHistory, httpSleeps, httpOut>>
otherVars == <<offlineVars, httpVars, tableVars, utilVars, scoreVars, clsVars, recVars>>
vars == <<crawlVars, otherVars>>

(***************************************************************************)
(* spider/bilibili_api.py: key exchange                                    *)
(***************************************************************************)
mixin_key_enc_tab ==
    << 46, 47, 18, 2, 53, 8, 23, 32,
       15, 50, 10, 31, 58, 3, 45, 35,
       27, 43, 5, 49, 33, 9, 42, 19,
       29, 28, 14, 39, 12, 38, 41, 13,
       37, 48, 7, 16, 24, 55, 40, 61,
       26, 17, 0, 1, 60, 51, 30, 4,
       22, 25, 54, 21, 56, 59, 6, 63,
       57, 62, 11, 36, 20, 34, 44, 52 >>

\* build_wbi_mixin_key, had it asked for 32 characters only and taken the
\* table's positions that exist
build_wbi_mixin_key_short(img_key, sub_key) ==
    LET s == img_key \o sub_key
        at == SelectSeq(mixin_key_enc_tab, LAMBDA i : i < Len(s))
    IN  IF Len(s) < MIXIN_KEY_LEN
        THEN <<>>
        ELSE SubSeq([i \in 1 .. Len(at) |-> s[at[i] + 1]], 1, MIXIN_KEY_LEN)

\* build_wbi_mixin_key(img_key, sub_key): "" when img_key + sub_key is
\* shorter than 64 characters, else its characters in table order, cut to 32
build_wbi_mixin_key(img_key, sub_key) ==
    LET s == img_key \o sub_key
    IN  IF Len(s) < MIXIN_SRC_LEN
        THEN <<>>
        ELSE SubSeq([i \in 1 .. Len(mixin_key_enc_tab) |-> s[mixin_key_enc_tab[i] + 1]],
                    1, MIXIN_KEY_LEN)

\* A key fragment of n characters (the characters are 1000+1 .. 1000+n).
Key(n) == [i \in 1 .. n |-> 1000 + i]

\* What GET /x/web-interface/nav can give: request_bili_data raises (HTTP
\* error, code # 0, body not JSON), data is no dict, or data.wbi_img holds
\* img_url and sub_url, here by the file stem get_wbi_keys cuts out of each
\* (<<>>: the url is missing or empty).
NavResponses ==
    {[kind |-> "raise", img_url |-> <<>>, sub_url |-> <<>>],
     [kind |-> "notdict", img_url |-> <<>>, sub_url |-> <<>>]}
    \cup {[kind |-> "dict", img_url |-> Key(a), sub_url |-> Key(b)] :
             a \in {0, 31, 32}, b \in {0, 32}}

\* get_wbi_keys: <<img_key, sub_key>>, <<"", "">> unless both urls are there
get_wbi_keys(resp) ==
    IF resp.kind # "dict" THEN << <<>>, <<>> >>
    ELSE IF resp.img_url = <<>> \/ resp.sub_url = <<>> THEN << <<>>, <<>> >>
    ELSE <<resp.img_url, resp.sub_url>>

(***************************************************************************)
(* spider/bilibili_api.py: CRAWL_CONFIG and the request's parameters       *)
(***************************************************************************)
\* A task is its keyword ("" when "q"/"keyword" is missing or empty).
Keywords == {"", "kw"}

\* CRAWL_CONFIG: 30 tasks, every one with a keyword
CRAWL_CONFIG == [i \in 1 .. 30 |-> "kw"]

\* The task lists of the requests: none, or 1 to MaxTasks tasks. (A request
\* without tasks runs CRAWL_CONFIG, see task_list_of.)
TaskLists == UNION {[1 .. n -> Keywords] : n \in 0 .. MaxTasks}

\* The flags of a request; absent, each has the default of crawl, lines
\* 480-482. The requests of the model change at most one of them, and
\* ask for at most MaxSteps pages in all; the request without tasks asks for
\* one page per task and changes no flag; max_pages 0 is asked for one task,
\* with no flag changed.
DefaultFlags ==
    [fetch_detail |-> TRUE, fetch_tags |-> TRUE, save_to_db |-> TRUE,
     skip_existing |-> FALSE]
ParamSets ==
    {p \in [tasks : TaskLists, max_pages : 0 .. MaxPagesParam,
            fetch_detail : BOOLEAN, fetch_tags : BOOLEAN, save_to_db : BOOLEAN,
            skip_existing : BOOLEAN] :
        /\ Len(p.tasks) * p.max_pages <= MaxSteps
        /\ Cardinality({k \in DOMAIN DefaultFlags : p[k] # DefaultFlags[k]}) <= 1
        /\ p.tasks = <<>> =>
              (p.max_pages = 1 /\ \A k \in DOMAIN DefaultFlags : p[k] = DefaultFlags[k])
        /\ p.max_pages = 0 =>
              (Len(p.tasks) = 1 /\ \A k \in DOMAIN DefaultFlags : p[k] = DefaultFlags[k])}

\* total_steps_of, had it counted the tasks only
total_steps_tasks_only(tl, mp) == Max(1, Len(tl))

\* crawl, lines 472-478
task_list_of(p) == IF p.tasks = <<>> THEN CRAWL_CONFIG ELSE p.tasks
max_pages_of(p) == Max(1, Min(p.max_pages, MAX_PAGES))
\* crawl, line 497
total_steps_of(tl, mp) == Max(1, Len(tl) * mp)

\* A search page: up to MaxItems items, each an identifier or no "bvid".
SearchPages == UNION {[1 .. n -> Bvids \cup {NoBvid}] : n \in 0 .. MaxItems}

\* search_video_by_keyword raises, or returns a page
SearchOutcomes ==
    {[raises |-> TRUE, items |-> <<>>]}
    \cup {[raises |-> FALSE, items |-> pg] : pg \in SearchPages}


(***************************************************************************)
(* app.py: on_progress, the progress_cb of the run                         *)
(***************************************************************************)
\* One call progress_cb(done, total, line): kind names the line, pg the page
\* number the line carries (0: none).
Rep(done, total, kind, pg) == [done |-> done, total |-> total, kind |-> kind, page |-> pg]

\* task["progress"] after on_progress(done, total, line), lines 77-78
progress_after(old, r) ==
    IF r.total # 0 THEN Min(100, Max(0, (r.done * 100) \div r.total)) ELSE old

RECURSIVE progress_after_all(_, _)
progress_after_all(old, rs) ==
    IF rs = <<>> THEN old
    ELSE progress_after_all(progress_after(old, Head(rs)), Tail(rs))

\* The worker's step called progress_cb for each of rs, in order.
Report(rs) ==
    /\ progress' = progress_after_all(progress, rs)
    /\ reports' = IF rs = <<>> THEN reports ELSE rs

Terminal == {"succeeded", "failed", "cancelled"}

(***************************************************************************)
(* app.py: create_spider_task, run_spider_task, cancel_spider_task         *)
(***************************************************************************)
\* create_spider_task (lines 94-107): the task is registered as pending and
\* the worker thread started
create_spider_task(p) ==
    /\ status = "none"
    /\ status' = "pending"
    /\ progress' = 0
    /\ message' = ""
    /\ resultSet' = FALSE
    /\ params' = p
    /\ existing' = stored
    /\ pc' = "spawned"
    /\ UNCHANGED <<flagCreated, flagSet, loopVars, runVars, envVars, reports,
                   histVars, navResp, cancelVars, otherVars>>

\* run_spider_task, lines 69-72
WorkerStart ==
    /\ pc = "spawned"
    /\ status' = "running"
    /\ progress' = 0
    /\ message' = ""
    /\ pc' = "mkflag"
    /\ UNCHANGED <<resultSet, flagCreated, flagSet, params, loopVars, runVars,
                   envVars, existing, reports, histVars, navResp, cancelVars,
                   otherVars>>

\* run_spider_task, lines 73-74: the stop flag is created, not set
WorkerMakeFlag ==
    /\ pc = "mkflag"
    /\ flagCreated' = TRUE
    /\ flagSet' = FALSE
    /\ pc' = "crawl"
    /\ UNCHANGED <<status, progress, message, resultSet, params, loopVars,
                   runVars, envVars, existing, reports, histVars, navResp,
                   cancelVars, otherVars>>

\* run_spider_task, lines 84-86: crawl returned
WorkerSucceed ==
    /\ pc = "ret"
    /\ resultSet' = TRUE
    /\ status' = "succeeded"
    /\ progress' = 100
    /\ pc' = "done"
    /\ UNCHANGED <<message, flagCreated, flagSet, params, loopVars, runVars,
                   envVars, existing, reports, histVars, navResp, cancelVars,
                   otherVars>>

\* run_spider_task, lines 87-89: crawl raised
WorkerFail ==
    /\ pc = "raised"
    /\ status' = "failed"
    /\ message' = "exc"
    /\ pc' = "done"
    /\ UNCHANGED <<progress, resultSet, flagCreated, flagSet, params, loopVars,
                   runVars, envVars, existing, reports, histVars, navResp,
                   cancelVars, otherVars>>

\* cancel_spider_task, lines 138-143: the task exists; its flag, if it has
\* one, is set
CancelSetFlag ==
    /\ status # "none"
    /\ cpc = "idle"
    /\ flagSet' = (flagCreated \/ flagSet)
    /\ cpc' = "flagged"
    /\ cancelled' = TRUE
    /\ cancelInTime' = (cancelInTime \/ status \notin Terminal)
    /\ cancelledPending' = (cancelledPending \/ ~flagCreated)
    /\ UNCHANGED <<status, progress, message, resultSet, flagCreated, pc, params,
                   loopVars, runVars, envVars, existing, reports, histVars,
                   navResp, otherVars>>

\* cancel_spider_task, lines 144-145
CancelWriteStatus ==
    /\ cpc = "flagged"
    /\ status' = "cancelled"
    /\ cpc' = "idle"
    /\ UNCHANGED <<progress, message, resultSet, flagCreated, flagSet, pc, params,
                   loopVars, runVars, envVars, existing, reports, histVars,
                   navResp, cancelled, cancelInTime, cancelledPending, otherVars>>

(***************************************************************************)
(* spider/bilibili_api.py: crawl                                           *)
(***************************************************************************)
NoneCached == [i \in Bvids |-> "none"]
NoRequests == [i \in Bvids |-> 0]

\* crawl, lines 471-502: parameters, key exchange, mixin key, counters
CrawlStart ==
    /\ pc = "crawl"
    /\ \E resp \in NavResponses :
         LET keys == get_wbi_keys(resp)
             mk == build_wbi_mixin_key(keys[1], keys[2])
             tl == task_list_of(params)
             mp == max_pages_of(params)
         IN  /\ navResp' = resp
             /\ taskList' = tl
             /\ maxPages' = mp
             /\ IF tl = <<>>
                THEN /\ pc' = "ret"
                     /\ Report(<<>>)
                     /\ UNCHANGED <<mixinKey, totalSteps>>
                ELSE IF resp.kind = "raise"
                THEN /\ pc' = "raised"
                     /\ Report(<<>>)
                     /\ UNCHANGED <<mixinKey, totalSteps>>
                ELSE /\ pc' = "task_head"
                     /\ mixinKey' = mk
                     /\ totalSteps' = total_steps_of(tl, mp)
                     /\ Report(IF mk = <<>> THEN <<Rep(0, 1, "wbi_fail", 0)>> ELSE <<>>)
    /\ stepsDone' = 0
    /\ hasResults' = FALSE
    /\ detailCache' = NoneCached
    /\ tagCache' = NoneCached
    /\ ti' = 1
    /\ UNCHANGED <<status, message, resultSet, flagCreated, flagSet, params,
                   page, envVars, existing, histVars, cancelVars, otherVars>>

\* crawl, lines 504-512: the next task; a task without a keyword is skipped
TaskHead ==
    /\ pc = "task_head"
    /\ IF ti > Len(taskList)
       THEN /\ pc' = "ret"
            /\ Report(<<>>)
            /\ UNCHANGED <<ti, page>>
       ELSE IF taskList[ti] = ""
       THEN /\ ti' = ti + 1
            /\ Report(<<>>)
            /\ UNCHANGED <<pc, page>>
       ELSE /\ Report(<<Rep(stepsDone, totalSteps, "task_start", 0)>>)
            /\ page' = 1
            /\ pc' = "page_head"
            /\ UNCHANGED ti
    /\ UNCHANGED <<status, message, resultSet, flagCreated, flagSet, params,
                   loopVars, stepsDone, hasResults, detailCache, tagCache,
                   envVars, existing, histVars, navResp, cancelVars, otherVars>>

\* The state an item of a page is processed in: the caches, the requests
\* issued so far, the page's batch_data (the identifiers of its records, and
\* the records), the calls of progress_cb, whether the page has raised,
\* whether an item raised by what it holds (no request of it failing), and
\* the calls of time.sleep and the requests in the order they were made.
PageAcc(dc, tc, dr, tr) ==
    [dc |-> dc, tc |-> tc, dr |-> dr, tr |-> tr, batch |-> <<>>, reps |-> <<>>,
     raised |-> FALSE, recs |-> <<>>, malformed |-> FALSE, events |-> <<>>]

\* time.sleep(random.uniform(*range)): the range is named, the sample is
\* drawn by the caller of the page
Sleep(range) == [ev |-> "sleep", of |-> range]
\* a request to the remote API: "search", "detail" or "tags"
Request(kind) == [ev |-> "request", of |-> kind]

\* video_data as it joins batch_data (lines 561-634): built by
\* normalize_from_detail if the cached detail is not empty, else from the
\* search item; tag_names are the names merge_tags found, tags are they or,
\* without any, the task's keyword
video_data(bvid, detail, tags, fetch_tags) ==
    LET tag_names == IF fetch_tags /\ tags = "tags" THEN "names" ELSE ""
    IN  [bvid |-> bvid,
         built_from |-> IF detail = "ok" THEN "detail" ELSE "search",
         tag_names |-> tag_names,
         tags |-> IF tag_names # "" THEN tag_names ELSE "keyword"]

\* detail_step, had the exception of a detail request left the item
detail_step_raise_propagates(a, bvid, fetch_detail, done, total, pg) ==
    IF fetch_detail /\ a.dc[bvid] = "none"
    THEN {[a EXCEPT !.dr[bvid] = @ + 1,
                    !.dc[bvid] = IF d = "raise" THEN "none" ELSE d,
                    !.raised = (d = "raise"),
                    !.events = @ \o <<Sleep("detail"), Request("detail")>>] :
            d \in {"ok", "empty", "raise"}}
    ELSE {a}

\* detail_step, had a request that raises not been cached
detail_step_failure_not_cached(a, bvid, fetch_detail, done, total, pg) ==
    IF fetch_detail /\ a.dc[bvid] = "none"
    THEN {[a EXCEPT !.dr[bvid] = @ + 1,
                    !.dc[bvid] = IF d = "raise" THEN "none" ELSE d,
                    !.events = @ \o <<Sleep("detail"), Request("detail")>>,
                    !.reps = IF d = "raise"
                             THEN Append(@, Rep(done, total, "detail_fail", pg))
                             ELSE @] :
            d \in {"ok", "empty", "raise"}}
    ELSE {a}

\* crawl, lines 551-560: the item's detail, requested unless cached; a
\* request that raises is reported and cached as {}
detail_step(a, bvid, fetch_detail, done, total, pg) ==
    IF fetch_detail /\ a.dc[bvid] = "none"
    THEN {[a EXCEPT !.dr[bvid] = @ + 1,
                    !.dc[bvid] = IF d = "ok" THEN "ok" ELSE "empty",
                    !.events = @ \o <<Sleep("detail"), Request("detail")>>,
                    !.reps = IF d = "raise"
                             THEN Append(@, Rep(done, total, "detail_fail", pg))
                             ELSE @] :
            d \in {"ok", "empty", "raise"}}
    ELSE {a}

\* crawl, lines 614-623: the item's tags, requested unless cached; a request
\* that raises is cached as []
tag_step(a, bvid, fetch_tags) ==
    IF fetch_tags /\ a.tc[bvid] = "none"
    THEN {[a EXCEPT !.tr[bvid] = @ + 1,
                    !.tc[bvid] = IF t = "tags" THEN "tags" ELSE "empty",
                    !.events = @ \o <<Sleep("detail"), Request("tags")>>] :
            t \in {"tags", "empty", "raise"}}
    ELSE {a}

\* crawl, lines 538-634: one item of the page, in every way it can go. An
\* item without "bvid" is skipped. The item raises before its detail is
\* requested (a malformed item), or after that and before its tags are
\* requested (a malformed detail), or after that (merging the tags,
\* classifying); else its record joins the batch.
item_step(a, bvid, fetch_detail, fetch_tags, done, total, pg) ==
    IF a.raised \/ bvid = NoBvid THEN {a}
    ELSE LET afterDetail == detail_step(a, bvid, fetch_detail, done, total, pg)
             afterTags == UNION {tag_step(b, bvid, fetch_tags) : b \in afterDetail}
         IN  {[a EXCEPT !.raised = TRUE, !.malformed = TRUE]}
             \cup {[b EXCEPT !.raised = TRUE, !.malformed = TRUE] :
                     b \in {x \in afterDetail : ~x.raised}}
             \cup {[c EXCEPT !.raised = TRUE, !.malformed = TRUE] :
                     c \in {x \in afterTags : ~x.raised}}
             \cup {[c EXCEPT !.batch = Append(@, bvid),
                             !.recs = Append(@, video_data(bvid, c.dc[bvid], c.tc[bvid],
                                                           fetch_tags))] :
                     c \in {x \in afterTags : ~x.raised}}
             \cup {x \in afterTags : x.raised}

\* crawl, line 538: the items of the page in order
RECURSIVE items_loop(_, _, _, _, _, _, _)
items_loop(as, items, fetch_detail, fetch_tags, done, total, pg) ==
    IF items = <<>> THEN as
    ELSE items_loop(UNION {item_step(a, Head(items), fetch_detail, fetch_tags,
                                     done, total, pg) : a \in as},
                    Tail(items), fetch_detail, fetch_tags, done, total, pg)

\* save_to_mysql (lines 396-466) as crawl calls it (lines 636-637): nothing
\* is done for an empty batch or without save_to_db; pymysql.connect raises
\* out of it; any later storage error is caught inside and nothing of the
\* batch is stored; else the batch is upserted in one transaction.
SaveOutcomes(save_to_db, b) ==
    IF save_to_db /\ b # <<>> THEN {"ok", "db_error", "connect_raise"} ELSE {"skip"}

save_to_mysql(db, b, out) == IF out = "ok" THEN db \cup Range(b) ELSE db

\* The batch of page src goes through "ON DUPLICATE KEY UPDATE" (lines
\* 449-460): the row of each of its identifiers is now the one of that page
rows_written(from, b, out, src) ==
    [i \in Bvids |-> IF out = "ok" /\ i \in Range(b) THEN src ELSE from[i]]

\* page_end, had a page that raised been waited on without end
page_end_waits(raised, done, total, pg) ==
    IF raised
    THEN [reps |-> <<Rep(done, total, "page_exc", pg)>>, done |-> done, page |-> pg,
          pc |-> "page_wait"]
    ELSE [reps |-> <<Rep(done + 1, total, "page_done", pg)>>,
          done |-> done + 1, page |-> pg + 1, pc |-> "page_head"]

\* page_end, had the page number grown by two
page_end_skips_page(raised, done, total, pg) ==
    [reps |-> (IF raised THEN <<Rep(done, total, "page_exc", pg)>> ELSE <<>>)
              \o <<Rep(done + 1, total, "page_done", pg)>>,
     done |-> done + 1, page |-> pg + 2, pc |-> "page_head"]

\* page_end, had the except clause of lines 641-644 been missing: the
\* exception leaves crawl
page_end_propagates(raised, done, total, pg) ==
    IF raised
    THEN [reps |-> <<>>, done |-> done, page |-> pg, pc |-> "raised"]
    ELSE [reps |-> <<Rep(done + 1, total, "page_done", pg)>>,
          done |-> done + 1, page |-> pg + 1, pc |-> "page_head"]

\* crawl, lines 641-648: how a page iteration that was not left by break
\* ends: an exception is reported with the page number; the page is counted
\* and reported, and the next page follows
page_end(raised, done, total, pg) ==
    [reps |-> (IF raised THEN <<Rep(done, total, "page_exc", pg)>> ELSE <<>>)
              \o <<Rep(done + 1, total, "page_done", pg)>>,
     done |-> done + 1, page |-> pg + 1, pc |-> "page_head"]

\* crawl, lines 517-531: a page iteration up to its search request: the
\* page delay, then the search
page_start(dc, tc, dr, tr) ==
    [PageAcc(dc, tc, dr, tr) EXCEPT !.events = <<Sleep("crawl"), Request("search")>>]

\* "stop_flag and stop_flag.is_set()", had it always been false
stop_flag_ignored(created, set) == FALSE

\* "stop_flag and stop_flag.is_set()", lines 515 and 650
stop_flag_is_set(created, set) == created /\ set

\* crawl, lines 514-522: a page iteration that ends before its search
\* request: the loop has run max_pages pages, or the stop flag is set, or
\* (after the page delay) there is no mixin key
PageBreak ==
    /\ pc = "page_head"
    /\ page > maxPages \/ stop_flag_is_set(flagCreated, flagSet) \/ mixinKey = <<>>
    /\ Report(IF page <= maxPages /\ ~stop_flag_is_set(flagCreated, flagSet)
              THEN <<Rep(stepsDone, totalSteps, "no_key", page)>> ELSE <<>>)
    /\ pc' = "task_tail"
    /\ flagObserved' = (flagObserved \/ (page <= maxPages /\ flagCreated /\ flagSet))
    /\ UNCHANGED <<status, message, resultSet, flagCreated, flagSet, params,
                   loopVars, runVars, envVars, existing, searchHist, navResp,
                   cancelVars, otherVars>>

\* crawl, lines 514-648: a page iteration with its search request. The
\* search raises, or gives no item (the task's loop breaks), or gives the
\* page's items: they are processed in order and the batch is saved. The
\* model follows a run through its first MaxTasks tasks (the run of
\* CRAWL_CONFIG has more).
PageIter ==
    /\ pc = "page_head"
    /\ ti <= MaxTasks
    /\ page <= maxPages /\ ~stop_flag_is_set(flagCreated, flagSet) /\ mixinKey # <<>>
    /\ flagObserved' = (flagObserved \/ (flagCreated /\ flagSet))
    /\ lastSearch' = <<ti, page>>
    /\ prevSearch' = lastSearch
    /\ prevRaised' = lastRaised
    /\ \E out \in SearchOutcomes :
         IF ~out.raises /\ out.items = <<>>
         THEN /\ Report(<<Rep(stepsDone, totalSteps, "no_more", page)>>)
              /\ pc' = "task_tail"
              /\ lastRaised' = FALSE
              /\ UNCHANGED <<runVars, envVars, pagesProcessed>>
         ELSE \E a \in IF out.raises
                       THEN {[page_start(detailCache, tagCache, detailReqs, tagReqs)
                                EXCEPT !.raised = TRUE]}
                       ELSE items_loop({page_start(detailCache, tagCache, detailReqs, tagReqs)},
                                       out.items, params.fetch_detail,
                                       params.fetch_tags, stepsDone, totalSteps, page) :
                \E sv \in IF a.raised THEN {"skip"}
                          ELSE SaveOutcomes(params.save_to_db, a.batch) :
                  LET raised == a.raised \/ sv = "connect_raise"
                      e == page_end(raised, stepsDone, totalSteps, page)
                  IN  /\ detailCache' = a.dc
                      /\ tagCache' = a.tc
                      /\ detailReqs' = a.dr
                      /\ tagReqs' = a.tr
                      /\ stored' = save_to_mysql(stored, a.batch, sv)
                      /\ storedFrom' = rows_written(storedFrom, a.batch, sv, <<ti, page>>)
                      /\ hasResults' = (hasResults \/ (~raised /\ a.batch # <<>>))
                      /\ lastRaised' = raised
                      /\ pagesProcessed' = pagesProcessed + 1
                      /\ Report(a.reps \o e.reps)
                      /\ stepsDone' = e.done
                      /\ page' = e.page
                      /\ pc' = e.pc
                      /\ UNCHANGED ti
    /\ UNCHANGED <<status, message, resultSet, flagCreated, flagSet, params,
                   loopVars, existing, navResp, cancelVars, otherVars>>

\* crawl, lines 650-655: after a task's pages: a set stop flag is reported
\* and ends the run, else the next task follows
TaskTail ==
    /\ pc = "task_tail"
    /\ IF stop_flag_is_set(flagCreated, flagSet)
       THEN /\ Report(<<Rep(stepsDone, totalSteps, "interrupted", 0)>>)
            /\ pc' = "ret"
            /\ UNCHANGED ti
       ELSE /\ ti' = ti + 1
            /\ pc' = "task_head"
            /\ Report(<<>>)
    /\ flagObserved' = (flagObserved \/ (flagCreated /\ flagSet))
    /\ UNCHANGED <<status, message, resultSet, flagCreated, flagSet, params,
                   loopVars, stepsDone, hasResults, detailCache, tagCache, page,
                   envVars, existing, searchHist, navResp, cancelVars, otherVars>>

(***************************************************************************)
(* The crawl run: one submitted task, its worker and the cancel requests   *)
(***************************************************************************)
CrawlInit ==
    /\ status = "none" /\ progress = 0 /\ message = ""
    /\ resultSet = FALSE /\ flagCreated = FALSE /\ flagSet = FALSE
    /\ pc = "none"
    /\ params = [tasks |-> <<>>, max_pages |-> 0, fetch_detail |-> FALSE,
                 fetch_tags |-> FALSE, save_to_db |-> FALSE, skip_existing |-> FALSE]
    /\ taskList = <<>> /\ maxPages = 0 /\ mixinKey = <<>> /\ totalSteps = 0
    /\ stepsDone = 0 /\ hasResults = FALSE
    /\ detailCache = NoneCached /\ tagCache = NoneCached
    /\ ti = 0 /\ page = 0
    /\ cpc = "idle" /\ cancelled = FALSE /\ cancelInTime = FALSE
    /\ cancelledPending = FALSE /\ flagObserved = FALSE
    /\ existing = {}
    /\ detailReqs = NoRequests /\ tagReqs = NoRequests
    /\ storedFrom = [i \in Bvids |-> <<0, 0>>]
    /\ lastSearch = <<0, 0>> /\ reports = <<>>
    /\ lastRaised = FALSE /\ prevSearch = <<0, 0>> /\ prevRaised = FALSE
    /\ pagesProcessed = 0
    /\ navResp = [kind |-> "none", img_url |-> <<>>, sub_url |-> <<>>]

NoRun == [ran |-> FALSE, wrote |-> FALSE, completed |-> FALSE]
EnrichIdle ==
    /\ videoRows = <<>> /\ enrichRows = <<>>
    /\ passes = 0 /\ lastRun = NoRun

TableIdle ==
    /\ tblCols = {} /\ tblRows = <<>>
    /\ lastBatch = <<>> /\ lastValues = <<>>
UtilIdle == utilIn = <<>> /\ utilOut = <<>>
HttpIdle == httpHistory = <<>> /\ httpSleeps = <<>> /\ httpOut = "idle"
ScoreIdle == scoreIn = <<>> /\ scoreOut = <<>>
ClsIdle == clsIn = <<>> /\ clsOut = <<>>
RecIdle == recDb = <<>> /\ recReq = <<>> /\ recOut = <<>>

Init ==
    /\ CrawlInit
    /\ stored \in SUBSET Bvids
    /\ enrichments = stored /\ EnrichIdle
    /\ TableIdle /\ UtilIdle /\ HttpIdle
    /\ ScoreIdle /\ ClsIdle /\ RecIdle

Next ==
    \/ \E p \in ParamSets : create_spider_task(p)
    \/ WorkerStart
    \/ WorkerMakeFlag
    \/ CrawlStart
    \/ TaskHead
    \/ PageBreak
    \/ PageIter
    \/ TaskTail
    \/ WorkerSucceed
    \/ WorkerFail
    \/ CancelSetFlag
    \/ CancelWriteStatus

Spec == Init /\ [][Next]_vars

\* The run under a scheduler that lets the worker thread take its steps:
\* every call over the network and to the storage returns or raises (the
\* requests carry timeout=REQUEST_TIMEOUT, the transport retries RETRY_TOTAL
\* times, each time.sleep is of bounded length), so a step that can be taken
\* is taken. Cancel requests come or do not. The runs are those with tasks
\* of their own and the default flags, on an empty storage.
LiveParams ==
    {p \in ParamSets :
        /\ p.tasks # <<>>
        /\ \A k \in DOMAIN DefaultFlags : p[k] = DefaultFlags[k]}

InitLive == Init /\ stored = {}

Worker ==
    \/ WorkerStart
    \/ WorkerMakeFlag
    \/ CrawlStart
    \/ TaskHead
    \/ PageBreak
    \/ PageIter
    \/ TaskTail
    \/ WorkerSucceed
    \/ WorkerFail

NextLive ==
    \/ \E p \in LiveParams : create_spider_task(p)
    \/ Worker
    \/ CancelSetFlag
    \/ CancelWriteStatus

SpecLive == InitLive /\ [][NextLive]_vars /\ WF_vars(Worker)

(***************************************************************************)
(* Claims about the crawl run                                              *)
(***************************************************************************)
NoRequestIssued ==
    /\ lastSearch = <<0, 0>>
    /\ \A b \in Bvids : detailReqs[b] = 0 /\ tagReqs[b] = 0
Last(s) == s[Len(s)]

\* C1: a run cancelled before it reached a terminal status ends cancelled:
\* once the worker and the cancel request are through, its status is
\* cancelled.
C1_CancelledStays ==
    (cancelInTime /\ pc = "done" /\ cpc = "idle") => status = "cancelled"

\* C2: the status changes only from pending to running and from running to
\* succeeded, failed or cancelled (and is pending when the run is submitted);
\* a terminal status never changes.
C2_StatusLifecycle ==
    [][status' # status =>
         <<status, status'>> \in {<<"none", "pending">>, <<"pending", "running">>,
                                  <<"running", "succeeded">>, <<"running", "failed">>,
                                  <<"running", "cancelled">>}]_vars

\* C3: with skip_existing, no detail and no tag request is issued for an
\* identifier that was stored when the run was submitted.
C3_SkipExisting ==
    \A b \in Bvids :
        (params.skip_existing /\ b \in existing) =>
            (detailReqs[b] = 0 /\ tagReqs[b] = 0)

\* The keywordless tasks strictly between tasks t and u
NoKeywordBetween(t, u) == \A k \in (t + 1) .. (u - 1) : taskList[k] = ""

\* <<u, q>> is the page after page p of task t: page p + 1 of the task, or,
\* p being its last page, page 1 of the next task that has a keyword
NextPageOf(t, p, u, q) ==
    \/ u = t /\ q = p + 1
    \/ p = maxPages /\ u > t /\ q = 1 /\ NoKeywordBetween(t, u)

KeyExchangeFailed == navResp.kind = "raise"
FragmentMissing ==
    \/ navResp.kind = "notdict"
    \/ navResp.kind = "dict" /\ (navResp.img_url = <<>> \/ navResp.sub_url = <<>>)
FragmentsShort ==
    /\ navResp.kind = "dict"
    /\ Len(navResp.img_url) + Len(navResp.sub_url) < MIXIN_SRC_LEN
NoUsableKey == KeyExchangeFailed \/ FragmentMissing \/ FragmentsShort

C10_Original ==
    \A i \in 1 .. Len(reports) : reports[i].total = Len(taskList) * maxPages

\* C10 as amended: every report but the notice of the failed key exchange
\* (which is (0, 1, ...)) carries len(tasks) x max_pages as its total. The
\* count of a report is the number of pages processed so far (0 at first,
\* one more after each page that gave items or raised), is never less than
\* the count of the report before, and never exceeds the total. With one
\* task, max_pages 1 and a page processed, the last report is (1, 1, ...),
\* and the worker ends the run succeeded.
C10_Progress ==
    /\ \A i \in 1 .. Len(reports) :
          /\ reports[i].kind # "wbi_fail" =>
                /\ reports[i].total = Len(taskList) * maxPages
                /\ reports[i].done <= reports[i].total
          /\ reports[i].kind = "wbi_fail" => (reports[i].done = 0 /\ reports[i].total = 1)
          /\ reports[i].done >= 0 /\ reports[i].done <= pagesProcessed
          /\ i > 1 => reports[i - 1].done <= reports[i].done
    /\ stepsDone = pagesProcessed
    /\ pagesProcessed <= Len(taskList) * maxPages
    /\ (reports # <<>> /\ pc \in {"task_head", "page_head", "task_tail", "ret", "done"}) =>
          Last(reports).done = pagesProcessed
    /\ (Len(taskList) = 1 /\ maxPages = 1 /\ pagesProcessed = 1) =>
          /\ Last(reports).done = 1 /\ Last(reports).total = 1
          /\ pc = "done" => (resultSet /\ (~cancelled => status = "succeeded"))

\* C10 witness: one task, max_pages 1, a page with a video: the last report
\* is the page's (1, 1, ...) and the run succeeded
C10_Witness ==
    /\ Len(taskList) = 1 /\ maxPages = 1 /\ hasResults
    /\ Last(reports) = Rep(1, 1, "page_done", 1)
    /\ pc = "done" /\ status = "succeeded"


\* C11: every identifier in table videos has its row in table
\* video_enrichments: the run that stores a video stores its enrichment
\* (topics, difficulty, subject, quality score, recommended flag) with it.
C11_RecordAndEnrichment == \A b \in stored : b \in enrichments

\* C22: a search request is made for a task of the list the run was
\* submitted with, one with a keyword; a run submitted without tasks, or
\* with tasks none of which has a keyword, issues no request and returns no
\* result.
C22_KeywordsFromTaskList ==
    /\ lastSearch # <<0, 0>> =>
          /\ lastSearch[1] \in DOMAIN params.tasks
          /\ params.tasks[lastSearch[1]] # ""
    /\ (\A k \in DOMAIN params.tasks : params.tasks[k] = "") =>
          (NoRequestIssued /\ ~hasResults)

\* <<t, p>> comes before <<u, q>> in the order of the run: an earlier task,
\* or an earlier page of the same task
PageBefore(a, b) == a[1] < b[1] \/ (a[1] = b[1] /\ a[2] < b[2])

C30_RunTerminates ==
    /\ (status = "pending") ~> (status \in Terminal)
    /\ (pc = "spawned") ~> (pc = "done")
    /\ [](pagesProcessed <= Len(taskList) * maxPages)

\* C30 witness: a run of two tasks of two pages each has searched the
\* second page of its second task, a page before it raised, and the worker
\* is through with status succeeded
C30_Witness ==
    /\ Len(taskList) = 2 /\ maxPages = 2
    /\ lastSearch = <<2, 2>> /\ prevRaised
    /\ pagesProcessed = 4
    /\ pc = "done" /\ status = "succeeded"

C19_NoWorkAfterStop ==
    [][/\ flagObserved => /\ lastSearch' = lastSearch
                          /\ pagesProcessed' = pagesProcessed
                          /\ detailReqs' = detailReqs /\ tagReqs' = tagReqs
                          /\ stored' = stored
       /\ stored \subseteq stored']_vars

\* C19 witness: a page was stored, the loop then saw the flag set with
\* pages still to go, and the run returned with the page in storage
C19_Witness ==
    /\ flagObserved /\ pc = "done"
    /\ pagesProcessed = 1 /\ Len(taskList) * maxPages > 1
    /\ "BV1" \in stored /\ "BV1" \notin existing

\* C20: after a cancel request that arrived before the stop flag existed,
\* the run has issued no search request.
C20_PendingCancelNotLost == cancelledPending => lastSearch = <<0, 0>>

(***************************************************************************)
(* core/quality_scorer.py: QualityScorer                                   *)
(***************************************************************************)
\* A field of the video dict: absent, None, or a value. Counters and the
\* duration are integers; a name is the sequence of its code points.
Absent == [tag |-> "absent", val |-> 0]
Null == [tag |-> "null", val |-> 0]
IntV(n) == [tag |-> "int", val |-> n]
StrV(cs) == [tag |-> "str", val |-> cs]

\* video.get(key, default)
get(field, default) == IF field.tag = "absent" THEN default ELSE field

\* What a sub-score gives: a number num / den, or the exception it raises
Num(n, d) == [tag |-> "ok", num |-> n, den |-> d]
Raises(exc) == [tag |-> exc, num |-> 0, den |-> 1]

WEIGHT_ENGAGEMENT_PCT == 40
WEIGHT_DURATION_PCT == 20
WEIGHT_FRESHNESS_PCT == 20
WEIGHT_UPLOADER_PCT == 20
IDEAL_DURATION_MIN == 300
IDEAL_DURATION_MAX == 1800
UNKNOWN_UPLOADER_SCORE == 60
NO_PUBDATE_SCORE == 50

\* _score_engagement: max(None, 1) and None / views raise TypeError. The
\* rates are capped at 2%, 5% and 1% of the views and weighted 0.5, 0.3 and
\* 0.2: the score is
\*   (5 min(100 v, 5000 f) + 3 min(100 v, 2000 l) + 2 min(100 v, 10000 c)) / (10 v)
score_engagement(video) ==
    LET vc == get(video.view_count, IntV(0))
        fc == get(video.favorite_count, IntV(0))
        lc == get(video.like_count, IntV(0))
        cc == get(video.coin_count, IntV(0))
        views == Max(vc.val, 1)
        part(count, per_view, weight) == weight * Min(100 * views, per_view * count)
    IN  IF vc.tag = "null" \/ fc.tag = "null" \/ lc.tag = "null" \/ cc.tag = "null"
        THEN Raises("TypeError")
        ELSE Num(part(fc.val, 5000, 5) + part(lc.val, 2000, 3) + part(cc.val, 10000, 2),
                 10 * views)

\* _score_duration: None < 60 raises TypeError
score_duration(video) ==
    LET f == get(video.duration, IntV(0))
        duration == f.val
    IN  IF f.tag = "null" THEN Raises("TypeError")
        ELSE IF duration < 60 THEN Num(20, 1)
        ELSE IF duration < 2 * 60 THEN Num(40, 1)
        ELSE IF duration < IDEAL_DURATION_MIN THEN Num(60, 1)
        ELSE IF duration <= IDEAL_DURATION_MAX THEN Num(100, 1)
        ELSE IF duration <= 60 * 60 THEN Num(80, 1)
        ELSE Num(Max(50, 80 - ((duration - 60 * 60) \div (30 * 60)) * 10), 1)

\* The publish dates: the field is absent, None, 0 or "" (all falsy); a
\* timestamp in seconds; a timestamp in milliseconds (fromtimestamp raises
\* ValueError: year out of range); an ISO string without offset; an ISO
\* string with "Z" or an offset (an aware datetime: subtracting it from
\* datetime.now() raises TypeError); a string fromisoformat rejects; a naive
\* or an aware datetime. val is the age in days, (datetime.now() - pub_dt).days.
PubdateKinds ==
    {"absent", "null", "zero", "empty_str", "seconds", "millis", "iso_naive",
     "iso_aware", "bad_str", "datetime_naive", "datetime_aware"}
KindsWithAge == {"seconds", "iso_naive", "datetime_naive"}

\* _score_freshness
score_freshness(video) ==
    LET pubdate == video.pubdate
        days_ago == pubdate.val
    IN  IF pubdate.tag \in {"absent", "null", "zero", "empty_str"}
        THEN Num(NO_PUBDATE_SCORE, 1)
        ELSE IF pubdate.tag = "millis" THEN Raises("ValueError")
        ELSE IF pubdate.tag = "bad_str" THEN Num(NO_PUBDATE_SCORE, 1)
        ELSE IF pubdate.tag \in {"iso_aware", "datetime_aware"} THEN Raises("TypeError")
        ELSE IF days_ago < 180 THEN Num(100, 1)
        ELSE IF days_ago < 365 THEN Num(90, 1)
        ELSE IF days_ago < 730 THEN Num(70, 1)
        ELSE IF days_ago < 1095 THEN Num(50, 1)
        ELSE Num(30, 1)

\* a in b, of two strings
Contains(b, a) ==
    \E i \in 0 .. (Len(b) - Len(a)) : \A j \in 1 .. Len(a) : b[i + j] = a[j]

\* _default_uploader_scores, in the order of the dict
default_uploader_scores ==
    << <<<<23435, 28009, 32769, 24072, 23448, 26041>>, 95>>,
       <<<<23435, 28009, 32769, 24072>>, 95>>,
       <<<<24352, 23431, 32771, 30740, 25968, 23398>>, 92>>,
       <<<<27748, 23478, 20964, 32769, 24072>>, 90>>,
       <<<<27494, 24544, 31077, 32769, 24072>>, 90>>,
       <<<<27494, 24544, 31077>>, 90>>,
       <<<<26446, 27704, 20048, 32769, 24072>>, 88>>,
       <<<<20313, 19993, 26862, 32769, 24072>>, 85>>,
       <<<<51, 66, 108, 117, 101, 49, 66, 114, 111, 119, 110>>, 98>>,
       <<<<51, 66, 108, 117, 101, 49, 66, 114, 111, 119, 110, 20013, 22269>>, 95>>,
       <<<<22920, 21674, 35828, 77, 111, 109, 109, 121, 84, 97, 108, 107>>, 85>> >>

\* _score_uploader: the first known name that contains up_name or is
\* contained in it; known_name in None raises TypeError
score_uploader(video) ==
    LET f == get(video.up_name, StrV(<<>>))
        up_name == f.val
        hits == {i \in 1 .. Len(default_uploader_scores) :
                    \/ Contains(up_name, default_uploader_scores[i][1])
                    \/ Contains(default_uploader_scores[i][1], up_name)}
        first == CHOOSE i \in hits : \A j \in hits : i <= j
    IN  IF f.tag = "null" THEN Raises("TypeError")
        ELSE IF hits = {} THEN Num(UNKNOWN_UPLOADER_SCORE, 1)
        ELSE Num(default_uploader_scores[first][2], 1)

\* round(): the integer nearest to num / den, the even one of two
round_half_even(num, den) ==
    LET q == num \div den
        r == num % den
    IN  IF 2 * r < den THEN q
        ELSE IF 2 * r > den THEN q + 1
        ELSE IF q % 2 = 0 THEN q ELSE q + 1

\* score: the four sub-scores in the order of lines 81-84, the first
\* exception leaving score; else the weighted sum, cut to 0..100 and rounded
\* to two decimals. The result is in hundredths.
score(v) ==
    LET engagement == score_engagement(v)
        duration == score_duration(v)
        freshness == score_freshness(v)
        uploader == score_uploader(v)
        den == 100 * engagement.den
        total == WEIGHT_ENGAGEMENT_PCT * engagement.num
                 + (WEIGHT_DURATION_PCT * duration.num + WEIGHT_FRESHNESS_PCT * freshness.num
                    + WEIGHT_UPLOADER_PCT * uploader.num) * engagement.den
        cut == Min(100 * den, Max(0, total))
    IN  IF engagement.tag # "ok" THEN [tag |-> engagement.tag, val |-> 0]
        ELSE IF duration.tag # "ok" THEN [tag |-> duration.tag, val |-> 0]
        ELSE IF freshness.tag # "ok" THEN [tag |-> freshness.tag, val |-> 0]
        ELSE IF uploader.tag # "ok" THEN [tag |-> uploader.tag, val |-> 0]
        ELSE [tag |-> "ok", val |-> round_half_even(cut, engagement.den)]

\* The videos scored
CounterValues == {Absent, Null, IntV(0), IntV(100)}
Videos ==
    [view_count : CounterValues,
     favorite_count : {Absent, Null, IntV(1), IntV(300)},
     like_count : {Absent, Null, IntV(5)},
     coin_count : {Absent, Null, IntV(1)},
     duration : {Absent, Null} \cup {IntV(d) : d \in {0, 60, 120, 300, 1801, 9000}},
     pubdate : {[tag |-> k, val |-> 0] : k \in PubdateKinds \ KindsWithAge}
               \cup {[tag |-> k, val |-> d] :
                        k \in KindsWithAge, d \in {-1, 180, 365, 730, 1095}},
     up_name : {Absent, Null, StrV(<<>>), StrV(<<122, 122>>), StrV(<<32769, 24072>>),
                StrV(<<51, 66, 108, 117, 101, 49, 66, 114, 111, 119, 110, 20013, 22269>>)}]

NoScore == [tag |-> "none", val |-> 0]

\* score(video) is called
ScoreVideo ==
    /\ scoreOut = NoScore
    /\ scoreOut' = score(scoreIn)
    /\ UNCHANGED <<crawlVars, offlineVars, httpVars, tableVars, utilVars, scoreIn, clsVars, recVars>>

InitScore ==
    /\ CrawlInit /\ stored = {} /\ enrichments = {} /\ EnrichIdle /\ TableIdle /\ UtilIdle /\ HttpIdle
    /\ scoreIn \in Videos /\ scoreOut = NoScore
    /\ ClsIdle /\ RecIdle

NextScore == ScoreVideo

SpecScore == InitScore /\ [][NextScore]_vars

\* The fields of v that are there and not None are of the documented kinds
NoNull(v) ==
    \A k \in {"view_count", "favorite_count", "like_count", "coin_count",
              "duration", "up_name"} : v[k].tag # "null"
PlainPubdate(v) ==
    v.pubdate.tag \in {"absent", "null", "zero", "seconds", "datetime_naive"}

\* C6: for every video with non-negative counters (or without them), any
\* duration, any or no publish date and any uploader name, score returns a
\* number from 0 to 100.
C6_ScoreInRange ==
    (scoreOut # NoScore /\ NoNull(scoreIn) /\ scoreIn.pubdate.tag # "null") =>
        (scoreOut.tag = "ok" /\ scoreOut.val >= 0 /\ scoreOut.val <= 10000)

\* v with every None field left out
WithoutNulls(v) == [k \in DOMAIN v |-> IF v[k].tag = "null" THEN Absent ELSE v[k]]

\* C7: score never raises, and a field that is absent or None counts as its
\* default: the score is that of the video without the field. (Stated of the
\* videos whose other fields are of the documented kinds.)
C7_NullAsDefault ==
    (scoreOut # NoScore /\ PlainPubdate(scoreIn)) =>
        (scoreOut.tag = "ok" /\ scoreOut = score(WithoutNulls(scoreIn)))

\* The videos whose uploader is scored: no name, None, an empty name, a
\* name in no relation to the table, a piece of a name of the table, names
\* of the table, and names that hold one
UploaderNames ==
    {Absent, Null, StrV(<<>>), StrV(<<122, 122>>), StrV(<<32769, 24072>>),
     StrV(<<23435, 28009, 32769, 24072, 30340, 35838>>),
     StrV(<<122, 27494, 24544, 31077>>)}
    \cup {StrV(default_uploader_scores[i][1]) : i \in 1 .. Len(default_uploader_scores)}
UploaderVideos ==
    [view_count : {Absent}, favorite_count : {Absent}, like_count : {Absent},
     coin_count : {Absent},
     duration : {Absent, IntV(60), IntV(300)},
     pubdate : {[tag |-> "absent", val |-> 0]},
     up_name : UploaderNames]

\* _score_uploader(video) is called
ScoreUploader ==
    /\ scoreOut = NoScore
    /\ scoreOut' = score_uploader(scoreIn)
    /\ UNCHANGED <<crawlVars, offlineVars, httpVars, tableVars, utilVars, scoreIn, clsVars, recVars>>

InitUploader ==
    /\ CrawlInit /\ stored = {} /\ enrichments = {} /\ EnrichIdle /\ TableIdle /\ UtilIdle /\ HttpIdle
    /\ scoreIn \in UploaderVideos /\ scoreOut = NoScore
    /\ ClsIdle /\ RecIdle

NextUploader == ScoreUploader

SpecUploader == InitUploader /\ [][NextUploader]_vars

\* The entries of the table matched by substring against the name: the
\* name holds the entry's, or is a piece of it; no name matches none
MatchedEntries(name) ==
    {i \in 1 .. Len(default_uploader_scores) :
        /\ name # <<>>
        /\ \/ Contains(name, default_uploader_scores[i][1])
           \/ Contains(default_uploader_scores[i][1], name)}

\* C28: the uploader score of a video whose name matches entries of the
\* table is the score of one of them; it is 60 when the name matches none,
\* and when the video has no name or an empty one.
C28_UploaderBaseline ==
    (scoreOut # NoScore /\ scoreIn.up_name.tag # "null") =>
        LET name == IF scoreIn.up_name.tag = "str" THEN scoreIn.up_name.val ELSE <<>>
            matched == MatchedEntries(name)
        IN  /\ scoreOut.tag = "ok" /\ scoreOut.den = 1
            /\ matched # {} =>
                  scoreOut.num \in {default_uploader_scores[i][2] : i \in matched}
            /\ matched = {} => scoreOut.num = 60

(***************************************************************************)
(* core/topic_classifier.py: TopicClassifier                               *)
(* A text is the sequence of its code points.                              *)
(***************************************************************************)
\* most fragments a title and a tag string of the model are made of
MaxTitleParts == 2
MaxTagParts == 1

\* TOPICS, each name by its code points
TOPICS ==
    << <<26497, 38480, 19982, 36830, 32493>>,
       <<23548, 25968, 19982, 24494, 20998>>,
       <<31215, 20998>>,
       <<24494, 20998, 26041, 31243>>,
       <<32423, 25968>>,
       <<22810, 20803, 20989, 25968>>,
       <<34892, 21015, 24335>>,
       <<30697, 38453>>,
       <<21521, 37327>>,
       <<32447, 24615, 26041, 31243, 32452>>,
       <<29305, 24449, 20540>>,
       <<27010, 29575, 22522, 30784>>,
       <<38543, 26426, 21464, 37327>>,
       <<25968, 29702, 32479, 35745>>,
       <<32771, 30740, 30456, 20851>>,
       <<31454, 36187>>,
       <<30452, 35266>> >>
\* DIFFICULTY_LEVELS: entry, intermediate, advanced
DIFFICULTY_LEVELS ==
    << <<20837, 38376>>,
       <<36827, 38454>>,
       <<39640, 38454>> >>
CALCULUS_TOPICS ==
    {<<26497, 38480, 19982, 36830, 32493>>,
     <<23548, 25968, 19982, 24494, 20998>>,
     <<31215, 20998>>,
     <<24494, 20998, 26041, 31243>>,
     <<32423, 25968>>,
     <<22810, 20803, 20989, 25968>>}
LINEAR_ALGEBRA_TOPICS ==
    {<<34892, 21015, 24335>>,
     <<30697, 38453>>,
     <<21521, 37327>>,
     <<32447, 24615, 26041, 31243, 32452>>,
     <<29305, 24449, 20540>>}
PROBABILITY_TOPICS ==
    {<<27010, 29575, 22522, 30784>>,
     <<38543, 26426, 21464, 37327>>,
     <<25968, 29702, 32479, 35745>>}
\* The subjects, in the order of the dicts of _infer_subject and
\* LECTURER_KEYWORDS
SUBJECTS ==
    << <<39640, 31561, 25968, 23398>>,
       <<32447, 24615, 20195, 25968>>,
       <<27010, 29575, 35770, 19982, 25968, 29702, 32479, 35745>> >>
\* LECTURER_KEYWORDS, by subject in the order of SUBJECTS
LECTURER_KEYWORDS ==
    << <<<<23435, 28009>>, <<24352, 23431>>, <<27748, 23478, 20964>>>>,
       <<<<26446, 27704, 20048>>, <<27494, 24544, 31077>>>>,
       <<<<23435, 28009>>>> >>
\* TOPIC_KEYWORDS, by topic in the order of TOPICS
TOPIC_KEYWORDS ==
    << <<<<26497, 38480>>,
         <<36830, 32493>>,
         <<26080, 31351, 23567>>,
         <<26080, 31351, 22823>>,
         <<22841, 36924>>,
         <<27931, 24517, 36798>>,
         <<31561, 20215, 26080, 31351, 23567>>>>,
       <<<<23548, 25968>>,
         <<24494, 20998>>,
         <<27714, 23548>>,
         <<38142, 24335, 27861, 21017>>,
         <<38544, 20989, 25968>>,
         <<21442, 25968, 26041, 31243, 23548, 25968>>,
         <<39640, 38454, 23548, 25968>>>>,
       <<<<31215, 20998>>,
         <<23450, 31215, 20998>>,
         <<19981, 23450, 31215, 20998>>,
         <<25442, 20803>>,
         <<20998, 37096, 31215, 20998>>,
         <<21464, 38480, 31215, 20998>>,
         <<24191, 20041, 31215, 20998>>>>,
       <<<<24494, 20998, 26041, 31243>>,
         <<19968, 38454>>,
         <<20108, 38454>>,
         <<24120, 24494, 20998>>,
         <<20559, 24494, 20998>>,
         <<36890, 35299>>,
         <<29305, 35299>>>>,
       <<<<32423, 25968>>,
         <<24130, 32423, 25968>>,
         <<27888, 21202>>,
         <<40614, 20811, 21171, 26519>>,
         <<20613, 37324, 21494>>,
         <<25910, 25947>>,
         <<21457, 25955>>>>,
       <<<<22810, 20803, 20989, 25968>>,
         <<20559, 23548>>,
         <<20840, 24494, 20998>>,
         <<37325, 31215, 20998>>,
         <<20108, 37325, 31215, 20998>>,
         <<19977, 37325, 31215, 20998>>,
         <<26354, 32447, 31215, 20998>>,
         <<26354, 38754, 31215, 20998>>>>,
       <<<<34892, 21015, 24335>>,
         <<20811, 25289, 40664>>,
         <<20195, 25968, 20313, 23376, 24335>>>>,
       <<<<30697, 38453>>,
         <<36870, 30697, 38453>>,
         <<20276, 38543, 30697, 38453>>,
         <<30697, 38453, 20056, 27861>>,
         <<21021, 31561, 21464, 25442>>>>,
       <<<<21521, 37327>>,
         <<21521, 37327, 31354, 38388>>,
         <<32447, 24615, 30456, 20851>>,
         <<32447, 24615, 26080, 20851>>,
         <<22522>>,
         <<32500, 25968>>,
         <<27491, 20132>>>>,
       <<<<32447, 24615, 26041, 31243, 32452>>,
         <<40784, 27425>>,
         <<38750, 40784, 27425>>,
         <<35299, 30340, 32467, 26500>>,
         <<22522, 30784, 35299, 31995>>>>,
       <<<<29305, 24449, 20540>>,
         <<29305, 24449, 21521, 37327>>,
         <<30456, 20284>>,
         <<23545, 35282, 21270>>,
         <<20108, 27425, 22411>>>>,
       <<<<27010, 29575>>,
         <<21476, 20856, 27010, 22411>>,
         <<26465, 20214, 27010, 29575>>,
         <<20840, 27010, 29575>>,
         <<36125, 21494, 26031>>>>,
       <<<<38543, 26426, 21464, 37327>>,
         <<20998, 24067>>,
         <<26399, 26395>>,
         <<26041, 24046>>,
         <<21327, 26041, 24046>>,
         <<20108, 32500, 20998, 24067>>>>,
       <<<<32479, 35745>>,
         <<20272, 35745>>,
         <<20551, 35774, 26816, 39564>>,
         <<32622, 20449, 21306, 38388>>,
         <<22238, 24402>>>>,
       <<<<32771, 30740>>,
         <<30495, 39064>>,
         <<21047, 39064>>,
         <<25968, 19968>>,
         <<25968, 20108>>,
         <<25968, 19977>>,
         <<21382, 24180>>>>,
       <<<<31454, 36187>>,
         <<25968, 23398, 31454, 36187>>,
         <<24314, 27169>>>>,
       <<<<26412, 36136>>,
         <<30452, 35266>>,
         <<21487, 35270, 21270>>,
         <<51, 66, 108, 117, 101, 49, 66, 114, 111, 119, 110>>,
         <<31185, 26222>>,
         <<36890, 20439>>>> >>
\* DIFFICULTY_KEYWORDS, by level in the order of DIFFICULTY_LEVELS
DIFFICULTY_KEYWORDS ==
    << <<<<20837, 38376>>,
         <<22522, 30784>>,
         <<38646, 22522, 30784>>,
         <<23567, 30333>>,
         <<21021, 23398>>,
         <<36890, 20439>>,
         <<31616, 21333>>,
         <<24555, 36895, 20837, 38376>>,
         <<20174, 38646, 24320, 22987>>>>,
       <<<<36827, 38454>>,
         <<25552, 39640>>,
         <<24378, 21270>>,
         <<28145, 20837>>,
         <<32771, 30740>>,
         <<35814, 35299>>,
         <<25216, 24039>>>>,
       <<<<39640, 38454>>,
         <<38590, 39064>>,
         <<25300, 39640>>,
         <<31454, 36187>>,
         <<35777, 26126>>,
         <<28145, 24230>>,
         <<25968, 23398, 23478>>>> >>
\* NON_MATH_CONTEXT
NON_MATH_CONTEXT ==
    << <<28216, 25103>>,
       <<77, 67>>,
       <<77, 105, 110, 101, 99, 114, 97, 102, 116>>,
       <<25105, 30340, 19990, 30028>>,
       <<25910, 23481>>,
       <<27169, 32452>>,
       <<25361, 25112>>,
       <<26497, 38480, 27169, 24335>>,
       <<29983, 23384, 27169, 24335>>,
       <<21019, 36896, 27169, 24335>>,
       <<29983, 23384, 25361, 25112>>,
       <<21407, 31070>>,
       <<29579, 32773, 33635, 32768>>,
       <<33521, 38596, 32852, 30431>>,
       <<76, 79, 76>>,
       <<21507, 40481>>,
       <<80, 85, 66, 71>>,
       <<115, 116, 101, 97, 109>>,
       <<20027, 25773>>,
       <<30452, 25773>>,
       <<28216, 25103, 35299, 35828>>,
       <<23454, 20917>>,
       <<36890, 20851>>,
       <<118, 108, 111, 103>>,
       <<26085, 24120>>,
       <<24320, 31665>>,
       <<35013, 20462>>,
       <<25913, 35013>>,
       <<27773, 36710>>,
       <<36305, 36710>>,
       <<36229, 36305>>,
       <<40657, 27934>>,
       <<28779, 31661>>,
       <<33322, 22825>>,
       <<39134, 26426>>,
       <<39740, 30044>>,
       <<25630, 31505>>,
       <<24694, 25630>>,
       <<25972, 34506>>,
       <<25972, 27963>>,
       <<31227, 38500, 38470, 22320>>,
       <<19968, 26684, 29289, 21697, 26639>>,
       <<21152, 36895, 49, 48, 48>> >>

\* Python's None where a string is expected: no text is equal to it
NONE == <<-1>>

\* The characters the pattern \s matches
WHITESPACE ==
    {9, 10, 11, 12, 13, 28, 29, 30, 31, 32, 133, 160, 5760, 8232, 8233, 8239,
     8287, 12288} \cup (8192 .. 8202)

\* str.lower(), of texts in ASCII and CJK characters: A-Z become a-z
lower(text) ==
    [i \in 1 .. Len(text) |-> IF text[i] \in 65 .. 90 THEN text[i] + 32 ELSE text[i]]

\* _normalize_text: lower case, whitespace removed
normalize_text(value) == SelectSeq(lower(value), LAMBDA c : c \notin WHITESPACE)

\* keyword.lower() for keyword in NON_MATH_CONTEXT
non_math_lowered == [k \in 1 .. Len(NON_MATH_CONTEXT) |-> lower(NON_MATH_CONTEXT[k])]

\* self._normalize_text(kw) for the keywords of a table
normalized_keywords(table) ==
    [i \in 1 .. Len(table) |-> [k \in 1 .. Len(table[i]) |-> normalize_text(table[i][k])]]
topic_keywords_normalized == normalized_keywords(TOPIC_KEYWORDS)
difficulty_keywords_normalized == normalized_keywords(DIFFICULTY_KEYWORDS)
lecturer_keywords_normalized == normalized_keywords(LECTURER_KEYWORDS)

\* _is_non_math_content, had it not lowered the text
is_non_math_content_as_written(title, tags, desc) ==
    LET text == title \o <<32>> \o tags
    IN  \E k \in 1 .. Len(NON_MATH_CONTEXT) : Contains(text, non_math_lowered[k])

\* _is_non_math_content: a term of NON_MATH_CONTEXT, lowered, occurs in the
\* lowered "title tags"
is_non_math_content(title, tags, desc) ==
    LET text == lower(title \o <<32>> \o tags)
    IN  \E k \in 1 .. Len(NON_MATH_CONTEXT) : Contains(text, non_math_lowered[k])

\* any(self._normalize_text(kw) in normalized_text for kw in keywords if kw),
\* normalized being the keywords normalized
any_keyword_in(keywords, normalized, normalized_text) ==
    \E k \in 1 .. Len(keywords) :
        keywords[k] # <<>> /\ Contains(normalized_text, normalized[k])

IndexOf(list, x) == CHOOSE i \in 1 .. Len(list) : list[i] = x

\* _classify_topics: the topics with a keyword in the text, in the order of
\* TOPICS
classify_topics(normalized_text) ==
    SelectSeq(TOPICS,
              LAMBDA topic : any_keyword_in(TOPIC_KEYWORDS[IndexOf(TOPICS, topic)],
                                            topic_keywords_normalized[IndexOf(TOPICS, topic)],
                                            normalized_text))

\* _classify_difficulty: the first level with a keyword in the text, else
\* the middle one
classify_difficulty(normalized_text) ==
    LET hits == {d \in 1 .. Len(DIFFICULTY_LEVELS) :
                    any_keyword_in(DIFFICULTY_KEYWORDS[d], difficulty_keywords_normalized[d],
                                   normalized_text)}
    IN  IF hits = {} THEN DIFFICULTY_LEVELS[2]
        ELSE DIFFICULTY_LEVELS[CHOOSE d \in hits : \A e \in hits : d <= e]

\* classify: <<topics, difficulty>> of "title tags desc", normalized
classify(title, tags, desc) ==
    LET normalized_text == normalize_text(title \o <<32>> \o tags \o <<32>> \o desc)
    IN  <<classify_topics(normalized_text), classify_difficulty(normalized_text)>>

\* _detect_lecturer_subject: the first subject with a lecturer named in the
\* text, else None
detect_lecturer_subject(title, tags, desc) ==
    LET normalized_text == normalize_text(title \o <<32>> \o tags \o <<32>> \o desc)
        hits == {i \in 1 .. Len(SUBJECTS) :
                    \E k \in 1 .. Len(LECTURER_KEYWORDS[i]) :
                        Contains(normalized_text, lecturer_keywords_normalized[i][k])}
    IN  IF hits = {} THEN NONE
        ELSE SUBJECTS[CHOOSE i \in hits : \A j \in hits : i <= j]

\* _infer_subject, had a tie gone to the last of the subjects
infer_subject_last_of_tie(topics, title, tags, desc) ==
    LET count(set) == Cardinality({i \in 1 .. Len(topics) : topics[i] \in set})
        scores == <<count(CALCULUS_TOPICS), count(LINEAR_ALGEBRA_TOPICS),
                    count(PROBABILITY_TOPICS)>>
        max_score == Max(scores[1], Max(scores[2], scores[3]))
    IN  IF topics = <<>> THEN detect_lecturer_subject(title, tags, desc)
        ELSE IF max_score > 0
        THEN SUBJECTS[CHOOSE i \in 1 .. 3 :
                        scores[i] = max_score /\ \A j \in (i + 1) .. 3 : scores[j] # max_score]
        ELSE detect_lecturer_subject(title, tags, desc)

\* _infer_subject: the first subject with the most topics among the matched
\* ones; the lecturer's subject when no topic belongs to a subject
infer_subject(topics, title, tags, desc) ==
    LET count(set) == Cardinality({i \in 1 .. Len(topics) : topics[i] \in set})
        scores == <<count(CALCULUS_TOPICS), count(LINEAR_ALGEBRA_TOPICS),
                    count(PROBABILITY_TOPICS)>>
        max_score == Max(scores[1], Max(scores[2], scores[3]))
    IN  IF topics = <<>> THEN detect_lecturer_subject(title, tags, desc)
        ELSE IF max_score > 0
        THEN SUBJECTS[CHOOSE i \in 1 .. 3 :
                        scores[i] = max_score /\ \A j \in 1 .. (i - 1) : scores[j] # max_score]
        ELSE detect_lecturer_subject(title, tags, desc)

\* classify_with_subject, had it classified without asking the filter
classify_with_subject_unfiltered(title, tags, desc) ==
    LET c == classify(title, tags, desc)
    IN  <<c[1], c[2], infer_subject(c[1], title, tags, desc)>>

\* classify_with_subject: <<topics, difficulty, subject>>
classify_with_subject(title, tags, desc) ==
    IF is_non_math_content(title, tags, desc)
    THEN << <<>>, DIFFICULTY_LEVELS[2], NONE >>
    ELSE LET c == classify(title, tags, desc)
         IN  <<c[1], c[2], infer_subject(c[1], title, tags, desc)>>

\* batch_classify: every video gets topics, difficulty and subject; its tags
\* are "tags" or, that being empty, "tag_names"
batch_classify(videos) ==
    [i \in 1 .. Len(videos) |->
        LET v == videos[i]
            tags == IF v.tags # <<>> THEN v.tags ELSE v.tag_names
            r == classify_with_subject(v.title, tags, v.desc)
        IN  [title |-> v.title, tags |-> v.tags, tag_names |-> v.tag_names,
             desc |-> v.desc, topics |-> r[1], difficulty |-> r[2], subject |-> r[3]]]

\* The texts classified: fragments in a row. The fragments are the two
\* halves of a blocklist term, the term steam in capitals, a
\* keyword of a topic, one of a difficulty, and a lecturer.
Fragments ==
    {<<28216>>, <<25103>>, <<83, 84, 69, 65, 77>>, <<26497, 38480>>,
     <<20837, 38376>>, <<23435, 28009>>}

RECURSIVE Concat(_)
Concat(parts) == IF parts = <<>> THEN <<>> ELSE Head(parts) \o Concat(Tail(parts))

Texts(n) == {Concat(parts) : parts \in UNION {[1 .. m -> Fragments] : m \in 0 .. n}}

ClassifierInputs ==
    [title : Texts(MaxTitleParts), tags : Texts(MaxTagParts),
     tag_names : {<<>>, <<28216, 25103>>},
     desc : {<<>>, <<30697, 38453>>, <<118, 108, 111, 103>>}]

NoClassification == [via |-> "none", res |-> <<>>]

\* classify_with_subject(title, tags, desc) is called
ClassifyWithSubject ==
    /\ clsOut = NoClassification
    /\ clsOut' = [via |-> "direct",
                  res |-> classify_with_subject(clsIn.title, clsIn.tags, clsIn.desc)]
    /\ UNCHANGED <<crawlVars, offlineVars, httpVars, tableVars, utilVars, scoreVars, clsIn, recVars>>

\* batch_classify([video]) is called
BatchClassify ==
    /\ clsOut = NoClassification
    /\ LET v == batch_classify(<<clsIn>>)[1]
       IN  clsOut' = [via |-> "batch", res |-> <<v.topics, v.difficulty, v.subject>>]
    /\ UNCHANGED <<crawlVars, offlineVars, httpVars, tableVars, utilVars, scoreVars, clsIn, recVars>>

InitClassify ==
    /\ CrawlInit /\ stored = {} /\ enrichments = {} /\ EnrichIdle /\ TableIdle /\ UtilIdle /\ HttpIdle
    /\ ScoreIdle
    /\ clsIn \in ClassifierInputs /\ clsOut = NoClassification
    /\ RecIdle

NextClassify == ClassifyWithSubject \/ BatchClassify

SpecClassify == InitClassify /\ [][NextClassify]_vars

\* most fragments of a title whose subject is inferred
MaxSubjectParts == 2

\* The texts whose subject is inferred: a keyword of a topic of the first
\* subject, keywords of two topics of the second, one of a topic of the
\* third, one of a topic of no subject, a lecturer of the first and third
\* subjects, and one of the second
SubjectFragments ==
    {<<26497, 38480>>, <<30697, 38453>>, <<34892, 21015, 24335>>, <<27010, 29575>>,
     <<32771, 30740>>, <<23435, 28009>>, <<26446, 27704, 20048>>}
SubjectInputs ==
    [title : {Concat(parts) :
                parts \in UNION {[1 .. m -> SubjectFragments] : m \in 0 .. MaxSubjectParts}},
     tags : {<<>>}, tag_names : {<<>>},
     desc : {<<>>, <<32771, 30740>>}]

InitSubject ==
    /\ CrawlInit /\ stored = {} /\ enrichments = {} /\ EnrichIdle /\ TableIdle /\ UtilIdle /\ HttpIdle
    /\ ScoreIdle
    /\ clsIn \in SubjectInputs /\ clsOut = NoClassification
    /\ RecIdle

SpecSubject == InitSubject /\ [][NextClassify]_vars

\* Two characters are the same but for the case of a letter
SameLetter(c, d) ==
    \/ c = d
    \/ c \in 65 .. 90 /\ d = c + 32
    \/ d \in 65 .. 90 /\ c = d + 32

\* term occurs in text, the case of the letters aside
TermOccurs(text, term) ==
    \E i \in 0 .. (Len(text) - Len(term)) :
        \A j \in 1 .. Len(term) : SameLetter(text[i + j], term[j])

\* A term of the blocklist occurs in the title or in the tags
BlockedInput(title, tags) ==
    \E k \in 1 .. Len(NON_MATH_CONTEXT) :
        TermOccurs(title, NON_MATH_CONTEXT[k]) \/ TermOccurs(tags, NON_MATH_CONTEXT[k])

\* The tags batch_classify classifies a video by
TagsOfVideo(v) == IF v.tags # <<>> THEN v.tags ELSE v.tag_names

SubjectTopics == <<CALCULUS_TOPICS, LINEAR_ALGEBRA_TOPICS, PROBABILITY_TOPICS>>

\* How many of the topics belong to subject i
MatchedOf(topics, i) == Cardinality({k \in 1 .. Len(topics) : topics[k] \in SubjectTopics[i]})

\* The subjects with the most of the topics
Leaders(topics) ==
    {i \in 1 .. 3 : \A j \in 1 .. 3 : MatchedOf(topics, j) <= MatchedOf(topics, i)}

\* The subjects a lecturer of which is named in the video's text
LecturerSubjects(v, tags) ==
    LET text == normalize_text(v.title \o <<32>> \o tags \o <<32>> \o v.desc)
    IN  {i \in 1 .. 3 : \E k \in 1 .. Len(LECTURER_KEYWORDS[i]) :
                            Contains(text, LECTURER_KEYWORDS[i][k])}

Least(set) == CHOOSE i \in set : \A j \in set : i <= j

\* The tags the call classified by
TagsClassified == IF clsOut.via = "batch" THEN TagsOfVideo(clsIn) ELSE clsIn.tags

\* The input is classified and no blocklist term occurs in it
Unblocked == clsOut # NoClassification /\ ~BlockedInput(clsIn.title, TagsClassified)

\* With a matched topic that belongs to a subject, the subject is the first
\* of those with the most matched topics
SubjectByTopics ==
    LET topics == clsOut.res[1]
    IN  (\E i \in 1 .. 3 : MatchedOf(topics, i) > 0) =>
            clsOut.res[3] = SUBJECTS[Least(Leaders(topics))]

MaxRows == 2

\* COURSE_TOPICS: the courses and, of each, its topics
COURSE_NAMES == << <<39640, 25968>>, <<32447, 20195>>, <<27010, 29575>> >>
COURSE_TOPICS ==
    << SubSeq(TOPICS, 1, 6), SubSeq(TOPICS, 7, 11), SubSeq(TOPICS, 12, 14) >>

\* COURSE_ALIASES: <<alias, course>>
COURSE_ALIASES ==
    << << <<39640, 31561, 25968, 23398>>, <<39640, 25968>> >>,
       << <<32447, 24615, 20195, 25968>>, <<32447, 20195>> >>,
       << <<27010, 29575, 35770>>, <<27010, 29575>> >>,
       << <<27010, 29575, 35770, 19982, 25968, 29702, 32479, 35745>>, <<27010, 29575>> >> >>

\* a value that is None or ""
Falsy(value) == value = NONE \/ value = <<>>

\* str.strip()
RECURSIVE lstrip(_)
lstrip(text) ==
    IF text # <<>> /\ Head(text) \in WHITESPACE THEN lstrip(Tail(text)) ELSE text
RECURSIVE rstrip(_)
rstrip(text) ==
    IF text # <<>> /\ text[Len(text)] \in WHITESPACE
    THEN rstrip(SubSeq(text, 1, Len(text) - 1)) ELSE text
strip(text) == rstrip(lstrip(text))

\* normalize_course
normalize_course(value) ==
    LET v == strip(IF Falsy(value) THEN <<>> ELSE value)
        hits == {i \in 1 .. Len(COURSE_ALIASES) : COURSE_ALIASES[i][1] = v}
    IN  IF v = <<>> THEN <<>>
        ELSE IF hits = {} THEN v
        ELSE COURSE_ALIASES[CHOOSE i \in hits : TRUE][2]

\* resolve_course_topics
resolve_course_topics(course) ==
    LET c == normalize_course(course)
        hits == {i \in 1 .. Len(COURSE_NAMES) : COURSE_NAMES[i] = c}
    IN  IF c = <<>> \/ hits = {} THEN <<>>
        ELSE COURSE_TOPICS[CHOOSE i \in hits : TRUE]

\* RecommendStrategy
Strategies == {"hot", "popular", "latest", "easy", "medium", "hard"}

\* _resolve_strategy_and_difficulty, had the preset always been the
\* difficulty
resolve_preset_wins(strategy, difficulty) ==
    IF strategy = "easy" THEN <<"hot", <<20837, 38376>>>>
    ELSE IF strategy = "medium" THEN <<"hot", <<36827, 38454>>>>
    ELSE IF strategy = "hard" THEN <<"hot", <<39640, 38454>>>>
    ELSE <<strategy, difficulty>>

\* _resolve_strategy_and_difficulty: <<strategy, difficulty>>
resolve_strategy_and_difficulty(strategy, difficulty) ==
    LET preset == IF strategy = "easy" THEN <<20837, 38376>>
                  ELSE IF strategy = "medium" THEN <<36827, 38454>>
                  ELSE IF strategy = "hard" THEN <<39640, 38454>>
                  ELSE NONE
    IN  IF Falsy(preset) THEN <<strategy, difficulty>>
        ELSE IF ~Falsy(difficulty) THEN <<"hot", difficulty>>
        ELSE <<"hot", preset>>

\* A query: the predicates of its filter() calls, in order, and its
\* order_by() ("none": no order_by)
Pred(kind, arg) == [kind |-> kind, arg |-> arg]

\* _build_base_query, with the enrichment model the routes construct the
\* engine with
build_base_query(only_recommended) ==
    [preds |-> (IF only_recommended THEN <<Pred("recommended", <<>>)>> ELSE <<>>)
               \o <<Pred("subject_in", <<>>), Pred("video_valid", <<>>)>>,
     order |-> "none"]

\* _apply_filters
apply_filters(query, course, topic, difficulty, up_name, search_query) ==
    LET allowed_topics == resolve_course_topics(course)
    IN  [query EXCEPT !.preds =
            @ \o (IF ~Falsy(topic) THEN <<Pred("topic_like", topic)>>
                  ELSE IF allowed_topics # <<>>
                  THEN <<Pred("any_topic_like", allowed_topics)>>
                  ELSE <<>>)
              \o (IF ~Falsy(difficulty) THEN <<Pred("difficulty_eq", difficulty)>> ELSE <<>>)
              \o (IF ~Falsy(up_name) THEN <<Pred("up_name_like", up_name)>> ELSE <<>>)
              \o (IF ~Falsy(search_query) THEN <<Pred("title_like", search_query)>> ELSE <<>>)]

\* _apply_strategy
apply_strategy(query, strategy) ==
    [query EXCEPT !.order =
        IF strategy = "hot" THEN "quality"
        ELSE IF strategy = "popular" THEN "favorite_rate"
        ELSE IF strategy = "latest" THEN "pubdate"
        ELSE IF strategy \in {"easy", "medium", "hard"} THEN "quality"
        ELSE @]

\* A row of videos outer-joined with its enrichment: whether the row
\* satisfies the predicate. A row without enrichment has NULL in every
\* column of the enrichment, and no predicate on NULL is true.
Satisfies(row, pred) ==
    CASE pred.kind = "recommended" -> row.enriched /\ row.recommended
      [] pred.kind = "subject_in" ->
            row.enriched /\ row.subject \in {SUBJECTS[1], SUBJECTS[2], SUBJECTS[3]}
      [] pred.kind = "video_valid" -> row.views > 0
      [] pred.kind = "topic_like" -> row.enriched /\ Contains(row.topics, pred.arg)
      [] pred.kind = "any_topic_like" ->
            row.enriched /\ \E k \in 1 .. Len(pred.arg) : Contains(row.topics, pred.arg[k])
      [] pred.kind = "difficulty_eq" -> row.enriched /\ row.difficulty = pred.arg
      [] pred.kind = "up_name_like" -> Contains(row.up_name, pred.arg)
      [] pred.kind = "title_like" -> Contains(row.title, pred.arg)

\* row a comes before row b under ORDER BY ... DESC
Before(a, b, order) ==
    CASE order = "quality" -> a.quality > b.quality
      [] order = "favorite_rate" ->
            a.favorites * Max(b.views, 1) > b.favorites * Max(a.views, 1)
      [] order = "pubdate" -> a.pubdate > b.pubdate
      [] OTHER -> FALSE

\* The rows in the order of the query; rows the order does not tell apart
\* keep the order of the table
RECURSIVE order_by(_, _)
order_by(rows, order) ==
    IF rows = <<>> THEN <<>>
    ELSE LET first == CHOOSE i \in 1 .. Len(rows) :
                        /\ \A j \in 1 .. Len(rows) : ~Before(rows[j], rows[i], order)
                        /\ \A j \in 1 .. (i - 1) : Before(rows[j], rows[i], order)
                                                   \/ Before(rows[i], rows[j], order)
             rest == [k \in 1 .. (Len(rows) - 1) |->
                        IF k < first THEN rows[k] ELSE rows[k + 1]]
         IN  <<rows[first]>> \o order_by(rest, order)

\* query.all(): the rows of the table the query selects, in its order
run_query(db, query) ==
    order_by(SelectSeq(db, LAMBDA row : \A k \in 1 .. Len(query.preds) :
                                            Satisfies(row, query.preds[k])),
             query.order)

\* _serialize_video
serialize_video(row) ==
    [bvid |-> row.bvid, title |-> row.title, up_name |-> row.up_name,
     pubdate |-> row.pubdate, view_count |-> row.views,
     quality_score |-> IF row.enriched THEN row.quality ELSE -1]

\* query.count(), had it counted the rows of the table
count_base_table(db, query) == Len(db)

\* query.count(): the number of rows the query selects
count(db, query) == Len(run_query(db, query))

\* recommend: the response, and with it the query the engine built
recommend(db, strategy, course, topic, difficulty, up_name, search_query, pg, page_size, only_recommended) ==
    LET base == build_base_query(only_recommended)
        resolved == resolve_strategy_and_difficulty(strategy, difficulty)
        filtered == apply_filters(base, course, topic, resolved[2], up_name, search_query)
        query == apply_strategy(filtered, resolved[1])
        all == run_query(db, query)
        total == count(db, query)
        pages == (total + page_size - 1) \div page_size
        offset == (pg - 1) * page_size
        rows == SubSeq(all, offset + 1, Min(Len(all), offset + page_size))
    IN  [items |-> [i \in 1 .. Len(rows) |-> serialize_video(rows[i])],
         total |-> total, page |-> pg, page_size |-> page_size, pages |-> pages,
         query |-> query]

\* The rows of the tables of the model. Of the enriched and recommended
\* ones, the better scored are the older and less favoured.
VideoRow(difficulty, quality, recommended, enriched) ==
    [bvid |-> 0, title |-> IF quality > 60 THEN <<31215, 20998>> ELSE <<30697, 38453>>,
     up_name |-> IF quality > 60 THEN <<23435, 28009>> ELSE <<122, 122>>,
     views |-> 10, favorites |-> (100 - quality) \div 10, pubdate |-> 100 - quality,
     enriched |-> enriched, recommended |-> recommended, subject |-> SUBJECTS[1],
     topics |-> IF difficulty = DIFFICULTY_LEVELS[2] THEN <<30697, 38453>>
                ELSE <<31215, 20998>>,
     difficulty |-> difficulty, quality |-> quality]

RowKinds ==
    {VideoRow(DIFFICULTY_LEVELS[d], q, TRUE, TRUE) : d \in 1 .. 3, q \in {50, 80}}
    \cup {VideoRow(DIFFICULTY_LEVELS[1], 90, FALSE, TRUE),
          VideoRow(DIFFICULTY_LEVELS[3], 70, FALSE, FALSE)}

\* The tables: up to MaxRows rows, the key of a row its place
Tables ==
    {[i \in 1 .. Len(t) |-> [t[i] EXCEPT !.bvid = i]] :
        t \in UNION {[1 .. n -> RowKinds] : n \in 0 .. MaxRows}}

\* The requests: a strategy, a difficulty (None, "", a level), at most one
\* of the other filters, a page and a page size
OtherFilters ==
    {[course |-> c, topic |-> t, up_name |-> u, search_query |-> q] :
        c \in {NONE, <<39640, 31561, 25968, 23398>>}, t \in {NONE, <<31215, 20998>>},
        u \in {NONE, <<23435, 28009>>}, q \in {NONE, <<30697, 38453>>}}
Requests ==
    {r \in [strategy : Strategies,
            difficulty : {NONE, <<>>, DIFFICULTY_LEVELS[1], DIFFICULTY_LEVELS[3]},
            other : OtherFilters, page : 1 .. 2, page_size : 1 .. 2,
            only_recommended : BOOLEAN] :
        Cardinality({k \in DOMAIN r.other : r.other[k] # NONE}) <= 1}

recommend_request(db, r) ==
    recommend(db, r.strategy, r.other.course, r.other.topic, r.difficulty,
              r.other.up_name, r.other.search_query, r.page, r.page_size,
              r.only_recommended)

NoResponse == [items |-> <<>>, total |-> -1, page |-> 0, page_size |-> 0, pages |-> 0,
               query |-> [preds |-> <<>>, order |-> "none"]]

\* recommend(...) is called
Recommend ==
    /\ recOut = NoResponse
    /\ recOut' = recommend_request(recDb, recReq)
    /\ UNCHANGED <<crawlVars, offlineVars, httpVars, tableVars, utilVars, scoreVars, clsVars, recDb, recReq>>

InitRecommend ==
    /\ CrawlInit /\ stored = {} /\ enrichments = {} /\ EnrichIdle /\ TableIdle /\ UtilIdle /\ HttpIdle
    /\ ScoreIdle /\ ClsIdle
    /\ recDb \in Tables /\ recReq \in Requests /\ recOut = NoResponse

NextRecommend == Recommend

SpecRecommend == InitRecommend /\ [][NextRecommend]_vars

\* The level of a preset strategy
LevelOfPreset(strategy) ==
    CASE strategy = "easy" -> <<20837, 38376>>
      [] strategy = "medium" -> <<36827, 38454>>
      [] strategy = "hard" -> <<39640, 38454>>

\* The difficulty of the equivalent request: the explicit one unless it is
\* empty
EffectiveDifficulty(r) ==
    IF r.difficulty # NONE /\ r.difficulty # <<>> THEN r.difficulty
    ELSE LevelOfPreset(r.strategy)

DifficultyPreds(query) ==
    {k \in 1 .. Len(query.preds) : query.preds[k].kind = "difficulty_eq"}

\* C9: the response to a preset strategy with difficulty d is the response
\* to hot with the difficulty d' (d unless empty, else the preset's level);
\* the query holds exactly one difficulty predicate, on d', and every item
\* returned is a row of difficulty d'.
C9_PresetIsHotWithDifficulty ==
    (recOut # NoResponse /\ recReq.strategy \in {"easy", "medium", "hard"}) =>
        LET d == EffectiveDifficulty(recReq)
        IN  /\ recOut = recommend_request(recDb, [recReq EXCEPT !.strategy = "hot",
                                                                !.difficulty = d])
            /\ Cardinality(DifficultyPreds(recOut.query)) = 1
            /\ \A k \in DifficultyPreds(recOut.query) : recOut.query.preds[k].arg = d
            /\ recOut.query.order = "quality"
            /\ \A i \in 1 .. Len(recOut.items) :
                  recDb[recOut.items[i].bvid].difficulty = d

\* C9 witness: strategy easy with the explicit difficulty of the top level,
\* over a table with a row of either level: the row returned is the top
\* level's
C9_Witness ==
    /\ recOut # NoResponse
    /\ recReq.strategy = "easy" /\ recReq.difficulty = <<39640, 38454>>
    /\ \E i \in 1 .. Len(recDb) : recDb[i].difficulty = <<20837, 38376>> /\ recDb[i].recommended
    /\ recOut.total = 1
    /\ recDb[recOut.items[1].bvid].difficulty = <<39640, 38454>>

\* The rows of the table the query of the response selects
FilteredRows ==
    {i \in 1 .. Len(recDb) :
        \A k \in 1 .. Len(recOut.query.preds) : Satisfies(recDb[i], recOut.query.preds[k])}

\* C16: total is the number of rows that pass the base filter and the
\* filters of the request, pages is total / page_size rounded up, and items
\* is the piece (page-1)*page_size .. page*page_size - 1 of the ordered rows:
\* at most page_size items, none when page > pages.
C16_Pagination ==
    recOut # NoResponse =>
        LET p == recReq.page_size
            ordered == run_query(recDb, recOut.query)
            offset == (recReq.page - 1) * p
        IN  /\ recOut.total = Cardinality(FilteredRows)
            /\ recOut.pages * p >= recOut.total
            /\ (recOut.pages - 1) * p < recOut.total \/ (recOut.pages = 0 /\ recOut.total = 0)
            /\ Len(recOut.items) = Max(0, Min(p, recOut.total - offset))
            /\ \A i \in 1 .. Len(recOut.items) :
                  recOut.items[i] = serialize_video(ordered[offset + i])
            /\ Len(recOut.items) <= p
            /\ recReq.page > recOut.pages => recOut.items = <<>>

\* C16 witness: a table of two rows of which the filters keep one, asked for
\* page 2 by one item: total 1, one page, no item
C16_Witness ==
    /\ recOut # NoResponse
    /\ Len(recDb) = 2 /\ recOut.total = 1
    /\ recReq.page = 2 /\ recReq.page_size = 1
    /\ recOut.pages = 1 /\ recOut.items = <<>>

(***************************************************************************)
(* spider/bilibili_api.py: save_to_mysql, row by row                       *)
(***************************************************************************)
\* most items of a batch
MaxBatch == 2

\* desired_cols of save_to_mysql, in its order
desired_cols ==
    <<"bvid", "aid", "video_url", "title", "desc", "up_name", "up_mid", "up_face",
      "pic_url", "view_count", "danmaku_count", "reply_count", "favorite_count",
      "like_count", "coin_count", "share_count", "duration", "pubdate", "tags",
      "tag_names", "source_keyword", "bili_tid", "bili_tname", "category", "phase",
      "subject", "dry_goods_ratio", "crawl_time">>

\* The columns ensure_video_table_schema adds when they are missing
migration_cols ==
    {"aid", "video_url", "bili_tid", "bili_tname", "desc", "like_count", "coin_count",
     "share_count", "tag_names", "source_keyword", "crawl_time"}

\* SQL NULL, and the value of every column the model does not vary
SqlNull == "NULL"
OtherValue == "0"

\* The tables save_to_mysql finds: one with all the crawler's columns, one
\* from before the migration columns were added, and the one models.py
\* declares (class Video), whose column names are Chinese (transliterated
\* here); none of those is a column of desired_cols.
CrawlerCols == Range(desired_cols)
OldCrawlerCols == CrawlerCols \ migration_cols
OrmCols == {"shipin_ID", "AV_hao", "biaoti", "biaoqian", "paqu_shijian"}
Schemas == {CrawlerCols, OldCrawlerCols, OrmCols}

\* ensure_video_table_schema: ALTER TABLE ADD COLUMN for the missing ones;
\* the rows there get NULL in them
ensure_video_table_schema(cols) == cols \cup migration_cols
migrated_rows(rows, cols) ==
    [k \in DOMAIN rows |->
        [c \in ensure_video_table_schema(cols) |->
            IF c \in cols THEN rows[k][c] ELSE SqlNull]]

\* insert_cols = [c for c in desired_cols if c in existing_cols]
insert_cols(existing_cols) == SelectSeq(desired_cols, LAMBDA c : c \in existing_cols)

\* One row of INSERT ... ON DUPLICATE KEY UPDATE, had the statement left a
\* row with the same key as it is (INSERT IGNORE)
upsert_row_ignore(rows, cols, ins, item) ==
    LET key == item["bvid"]
    IN  IF key \in DOMAIN rows THEN rows
        ELSE [k \in DOMAIN rows \cup {key} |->
                IF k = key THEN [c \in cols |-> IF c \in ins THEN item[c] ELSE SqlNull]
                ELSE rows[k]]

\* One row of INSERT ... ON DUPLICATE KEY UPDATE (lines 444-457), bvid being
\* the key of the table: a new row gets the item's values in insert_cols;
\* a row with the same key gets them in every column but bvid, and in
\* bili_tname only a value that is neither NULL nor '':
\* COALESCE(NULLIF(VALUES(c), ''), c)
upsert_row(rows, cols, ins, item) ==
    LET key == item["bvid"]
        old == rows[key]
        updated(c) ==
            IF c \notin ins \/ c = "bvid" THEN old[c]
            ELSE IF c = "bili_tname" /\ item[c] \in {SqlNull, ""} THEN old[c]
            ELSE item[c]
    IN  [k \in DOMAIN rows \cup {key} |->
            IF k # key THEN rows[k]
            ELSE IF key \in DOMAIN rows THEN [c \in cols |-> updated(c)]
            ELSE [c \in cols |-> IF c \in ins THEN item[c] ELSE SqlNull]]

\* cursor.executemany(sql, values): the rows of the batch in order
RECURSIVE executemany(_, _, _, _)
executemany(rows, cols, ins, data_list) ==
    IF data_list = <<>> THEN rows
    ELSE executemany(upsert_row(rows, cols, ins, Head(data_list)), cols, ins,
                     Tail(data_list))

\* by identifier, the item a batch has last for it
RECURSIVE last_values(_, _)
last_values(seen, data_list) ==
    IF data_list = <<>> THEN seen
    ELSE LET item == Head(data_list)
         IN  last_values([k \in DOMAIN seen \cup {item["bvid"]} |->
                             IF k = item["bvid"] THEN item ELSE seen[k]],
                         Tail(data_list))

\* The records crawl builds: every key of desired_cols is there
VideoData(bvid, title, bili_tname) ==
    [c \in CrawlerCols |->
        CASE c = "bvid" -> bvid
          [] c = "title" -> title
          [] c = "bili_tname" -> bili_tname
          [] OTHER -> OtherValue]
VideoDatas ==
    {VideoData(b, x[1], x[2]) : b \in {"BV1", "BV2"}, x \in {<<"t1", "">>, <<"t2", "n1">>}}
    \cup {VideoData("BV1", "t1", "n2")}
Batches == UNION {[1 .. n -> VideoDatas] : n \in 0 .. MaxBatch}

\* What the database does to a call: pymysql.connect raises; the migration
\* fails; the INSERT fails (nothing of the batch is committed); all is well
DbOutcomes == {"connect_raise", "migrate_error", "insert_error", "ok"}

\* save_to_mysql(data_list, auto_migrate=...), lines 396-466. An INSERT that
\* names no key column (the table has no column bvid) is refused.
SaveToMysql ==
    \E data_list \in Batches, auto_migrate \in BOOLEAN, out \in DbOutcomes :
        LET migrates == /\ data_list # <<>> /\ auto_migrate
                        /\ out \notin {"connect_raise", "migrate_error"}
            cols == IF migrates THEN ensure_video_table_schema(tblCols) ELSE tblCols
            rows == IF migrates THEN migrated_rows(tblRows, tblCols) ELSE tblRows
            ins == insert_cols(cols)
            writes == /\ data_list # <<>> /\ out = "ok"
                      /\ ins # <<>> /\ "bvid" \in Range(ins)
        IN  /\ (out = "migrate_error") => auto_migrate
            /\ tblCols' = cols
            /\ tblRows' = IF writes THEN executemany(rows, cols, Range(ins), data_list)
                          ELSE rows
            /\ lastBatch' = IF writes THEN data_list ELSE <<>>
            /\ lastValues' = IF writes THEN last_values(lastValues, data_list)
                             ELSE lastValues
            /\ UNCHANGED <<crawlVars, offlineVars, httpVars, utilVars, scoreVars, clsVars, recVars>>

InitSave ==
    /\ CrawlInit /\ stored = {} /\ enrichments = {} /\ EnrichIdle
    /\ tblCols \in Schemas /\ tblRows = <<>>
    /\ lastBatch = <<>> /\ lastValues = <<>>
    /\ UtilIdle /\ HttpIdle /\ ScoreIdle /\ ClsIdle /\ RecIdle

NextSave == SaveToMysql

SpecSave == InitSave /\ [][NextSave]_vars

\* The columns the upsert writes on a conflict, bili_tname set aside
OverwrittenCols == (CrawlerCols \cap tblCols) \ {"bvid", "bili_tname"}

EmptyName == {"", SqlNull}

\* C24: when a call writes one item whose identifier has a row, and the
\* table has the column bili_tname, a bili_tname of the row that is not
\* empty stays whatever the item brings, and an empty one becomes the
\* item's; every other column but the key becomes the item's.
C24_FirstNonEmptyWins ==
    [][(Len(lastBatch') = 1 /\ lastBatch'[1]["bvid"] \in DOMAIN tblRows
        /\ "bili_tname" \in tblCols) =>
          LET item == lastBatch'[1]
              key == item["bvid"]
              old == tblRows[key]["bili_tname"]
              new == tblRows'[key]["bili_tname"]
          IN  /\ old \notin EmptyName => new = old
              /\ old \in EmptyName =>
                    (new = item["bili_tname"] \/ (new = old /\ item["bili_tname"] \in EmptyName))
              /\ \A c \in OverwrittenCols : tblRows'[key][c] = item[c]]_vars

(***************************************************************************)
(* Python numbers: int of any size, and float (IEEE 754 binary64)          *)
(* A natural number is the sequence of its digits in base 2^15, the least  *)
(* significant first, without leading zeros; 0 is <<>>.                    *)
(***************************************************************************)
LimbBase == 2 ^ 15

RECURSIVE BigNorm(_)
BigNorm(a) ==
    IF a = <<>> THEN <<>>
    ELSE IF a[Len(a)] = 0 THEN BigNorm(SubSeq(a, 1, Len(a) - 1))
    ELSE a

\* the natural number n and back (of a number below 2^31)
BigOf(n) ==
    BigNorm(<<n % LimbBase, (n \div LimbBase) % LimbBase, n \div (LimbBase * LimbBase)>>)
BigToInt(a) ==
    (IF Len(a) >= 1 THEN a[1] ELSE 0)
    + (IF Len(a) >= 2 THEN a[2] * LimbBase ELSE 0)
    + (IF Len(a) >= 3 THEN a[3] * LimbBase * LimbBase ELSE 0)
FitsInt(a) == Len(a) <= 2 \/ (Len(a) = 3 /\ a[3] <= 1)

\* a * k + carry, for k and carry up to 10^4
RECURSIVE BigMulAdd(_, _, _)
BigMulAdd(a, k, carry) ==
    IF a = <<>> THEN (IF carry = 0 THEN <<>> ELSE <<carry>>)
    ELSE LET t == a[1] * k + carry
         IN  <<t % LimbBase>> \o BigMulAdd(Tail(a), k, t \div LimbBase)
BigMul(a, k) == BigNorm(BigMulAdd(a, k, 0))
BigSucc(a) == BigMulAdd(a, 1, 1)

\* quotient and remainder of a by k, for k up to 10^4
RECURSIVE BigDivMod(_, _)
BigDivMod(a, k) ==
    IF a = <<>> THEN [q |-> <<>>, r |-> 0]
    ELSE LET hi == BigDivMod(Tail(a), k)
             t == hi.r * LimbBase + a[1]
         IN  [q |-> BigNorm(<<t \div k>> \o hi.q), r |-> t % k]

\* a < b
RECURSIVE BigLess(_, _)
BigLess(a, b) ==
    IF Len(a) # Len(b) THEN Len(a) < Len(b)
    ELSE IF a = <<>> THEN FALSE
    ELSE IF a[Len(a)] # b[Len(b)] THEN a[Len(a)] < b[Len(b)]
    ELSE BigLess(BigNorm(SubSeq(a, 1, Len(a) - 1)), BigNorm(SubSeq(b, 1, Len(b) - 1)))

BigOdd(a) == a # <<>> /\ a[1] % 2 = 1

\* 2^52 and 2^53
Two52 == <<0, 0, 0, 2 ^ 7>>
Two53 == <<0, 0, 0, 2 ^ 8>>

\* A float that is not negative, infinite or NaN is mant * 2^exp with
\* mant <= 2^53.
FloatZero == [mant |-> <<>>, exp |-> 0]

\* n * 2^k for the least k that makes n / d at least 2^52
RECURSIVE float_scale(_, _, _)
float_scale(n, d, e) ==
    IF ~BigLess(n, BigMul(Two52, d)) THEN [n |-> n, exp |-> e]
    ELSE float_scale(BigMul(n, 2), d, e - 1)

\* float() of the decimal n / d, d a power of ten up to 10^4 and
\* n / d < 2^53: the nearest float, the even one of two
float_of(n, d) ==
    IF n = <<>> THEN FloatZero
    ELSE LET sc == float_scale(n, d, 0)
             qr == BigDivMod(sc.n, d)
             up == 2 * qr.r > d \/ (2 * qr.r = d /\ BigOdd(qr.q))
         IN  [mant |-> IF up THEN BigSucc(qr.q) ELSE qr.q, exp |-> sc.exp]

\* p * 2^e rounded to 53 bits, to nearest, the even one of two
RECURSIVE float_round(_, _, _, _)
float_round(p, e, guard, sticky) ==
    IF BigLess(p, Two53)
    THEN [mant |-> IF guard = 1 /\ (sticky \/ BigOdd(p)) THEN BigSucc(p) ELSE p,
          exp |-> e]
    ELSE LET h == BigDivMod(p, 2)
         IN  float_round(h.q, e + 1, h.r, sticky \/ guard = 1)

\* f * 10^4 and f * 10^8: the exact product, rounded once
float_mul_1e4(f) == float_round(BigMul(f.mant, 10000), f.exp, 0, FALSE)
float_mul_1e8(f) == float_round(BigMul(BigMul(f.mant, 10000), 10000), f.exp, 0, FALSE)

\* int(f): the integer part
RECURSIVE float_int(_, _)
float_int(mant, exp) ==
    IF exp = 0 \/ mant = <<>> THEN mant
    ELSE IF exp > 0 THEN float_int(BigMul(mant, 2), exp - 1)
    ELSE float_int(BigDivMod(mant, 2).q, exp + 1)

(***************************************************************************)
(* spider/utils.py: parse_count, parse_duration                            *)
(***************************************************************************)
\* most characters of a text given to parse_count and to parse_duration
MaxCountChars == 4
MaxDurationChars == 5

\* The values passed: None, an int, a float (NaN, an infinity, or the
\* number int + 1/2 or int - 1/2 away from zero when half), a str
PyNone == [tag |-> "none", int |-> 0, half |-> FALSE, text |-> <<>>]
PyInt(n) == [tag |-> "int", int |-> n, half |-> FALSE, text |-> <<>>]
PyFloat(n, half) == [tag |-> "float", int |-> n, half |-> half, text |-> <<>>]
PyNaN == [tag |-> "nan", int |-> 0, half |-> FALSE, text |-> <<>>]
PyInf == [tag |-> "inf", int |-> 0, half |-> FALSE, text |-> <<>>]
PyStr(cs) == [tag |-> "str", int |-> 0, half |-> FALSE, text |-> cs]

\* What a call gives: an int of any size, or the exception that leaves it
Returned(neg, mag) == [tag |-> "int", neg |-> neg /\ mag # <<>>, mag |-> mag]
ReturnedInt(n) == Returned(n < 0, BigOf(IF n < 0 THEN -n ELSE n))
Raised(exc) == [tag |-> exc, neg |-> FALSE, mag |-> <<>>]
NotReturned == [tag |-> "none", neg |-> FALSE, mag |-> <<>>]

IsDigit(c) == c \in 48 .. 57
\* how many digits s starts with
LeadDigits(s) ==
    CHOOSE k \in 0 .. Len(s) :
        /\ \A i \in 1 .. k : IsDigit(s[i])
        /\ k = Len(s) \/ ~IsDigit(s[k + 1])
\* s without its first k characters
Drop(s, k) == SubSeq(s, k + 1, Len(s))

\* the number a row of digits writes
RECURSIVE DigitsValue(_, _)
DigitsValue(acc, ds) ==
    IF ds = <<>> THEN acc
    ELSE DigitsValue(BigMulAdd(acc, 10, Head(ds) - 48), Tail(ds))
RECURSIVE Pow10(_)
Pow10(k) == IF k = 0 THEN 1 ELSE 10 * Pow10(k - 1)

\* re.fullmatch(r"(\d+(?:\.\d+)?)([wan yi]?)", s), the unit being the
\* character for 10^4 (19975) or for 10^8 (20159): whether it matches, the
\* digits before and after the point, and the unit (0 for none)
count_match(s) ==
    LET i == LeadDigits(s)
        rest == Drop(s, i)
        j == IF rest # <<>> /\ rest[1] = 46 THEN LeadDigits(Tail(rest)) ELSE 0
        tail == IF j > 0 THEN Drop(rest, j + 1) ELSE rest
    IN  [ok |-> i > 0 /\ tail \in {<<>>, <<19975>>, <<20159>>},
         whole |-> SubSeq(s, 1, i),
         frac |-> IF j > 0 THEN SubSeq(rest, 2, j + 1) ELSE <<>>,
         unit |-> IF tail = <<>> THEN 0 ELSE tail[1]]

\* float(s) of a text of digits, signs, points and characters no number
\* has (no exponent, underscore, "inf" or "nan"): whether it is a number,
\* its sign, and the digits before and after the point
float_parse(s) ==
    LET signed == s # <<>> /\ s[1] \in {43, 45}
        body == IF signed THEN Tail(s) ELSE s
        i == LeadDigits(body)
        rest == Drop(body, i)
        dot == rest # <<>> /\ rest[1] = 46
        j == IF dot THEN LeadDigits(Tail(rest)) ELSE 0
        tail == IF dot THEN Drop(rest, j + 1) ELSE rest
    IN  [ok |-> tail = <<>> /\ i + j > 0,
         neg |-> signed /\ s[1] = 45,
         whole |-> SubSeq(body, 1, i),
         frac |-> IF dot THEN SubSeq(rest, 2, j + 1) ELSE <<>>]

\* float() of the digits whole.frac
float_of_digits(whole, frac) == float_of(DigitsValue(<<>>, whole \o frac), Pow10(Len(frac)))

remove_commas(s) == SelectSeq(s, LAMBDA c : c # 44)

\* parse_count, had it computed with exact decimals
parse_count_exact(value) ==
    LET s == remove_commas(strip(value.text))
        m == count_match(s)
        n == DigitsValue(<<>>, m.whole \o m.frac)
        scaled == IF m.unit = 19975 THEN BigMul(n, 10000)
                  ELSE IF m.unit = 20159 THEN BigMul(BigMul(n, 10000), 10000)
                  ELSE n
    IN  IF value.tag = "str" /\ strip(value.text) \notin {<<>>, <<45>>} /\ m.ok
        THEN Returned(FALSE, BigDivMod(scaled, Pow10(Len(m.frac))).q)
        ELSE NotReturned

\* parse_count (lines 14-38)
parse_count(value) ==
    LET stripped == strip(value.text)
        s == remove_commas(stripped)
        m == count_match(s)
        num == float_of_digits(m.whole, m.frac)
        scaled == IF m.unit = 19975 THEN float_mul_1e4(num)
                  ELSE IF m.unit = 20159 THEN float_mul_1e8(num)
                  ELSE num
        f == float_parse(s)
        fnum == float_of_digits(f.whole, f.frac)
    IN  CASE value.tag = "none" -> ReturnedInt(0)
          [] value.tag = "int" -> ReturnedInt(value.int)
          [] value.tag = "float" -> ReturnedInt(value.int)
          [] value.tag = "nan" -> Raised("ValueError")
          [] value.tag = "inf" -> Raised("OverflowError")
          [] OTHER ->
                IF stripped = <<>> \/ stripped = <<45>> THEN ReturnedInt(0)
                ELSE IF ~m.ok
                THEN (IF f.ok THEN Returned(f.neg, float_int(fnum.mant, fnum.exp))
                      ELSE ReturnedInt(0))
                ELSE Returned(FALSE, float_int(scaled.mant, scaled.exp))

\* The texts counted: up to MaxCountChars of 2, 3, the point, the two
\* units, the minus sign, the comma, a blank and a letter
CountChars == {50, 51, 46, 19975, 20159, 45, 44, 32, 120}
CountTexts == UNION {[1 .. n -> CountChars] : n \in 0 .. MaxCountChars}
CountValues ==
    {PyNone, PyNaN, PyInf} \cup {PyInt(n) : n \in {-3, 0, 123}}
    \cup {PyFloat(n, h) : n \in {-3, 0, 3}, h \in BOOLEAN}
    \cup {PyStr(t) : t \in CountTexts}

\* parse_count(value) is called
ParseCount ==
    /\ utilIn.fn = "parse_count" /\ utilOut.tag = "none"
    /\ utilOut' = parse_count(utilIn.arg)
    /\ UNCHANGED <<crawlVars, offlineVars, httpVars, tableVars, utilIn, scoreVars, clsVars, recVars>>

\* int(s) of a text of digits, signs, blanks and characters no number has
\* (no underscore): whether it is a number, and the number
int_parse(s) ==
    LET t == strip(s)
        signed == t # <<>> /\ t[1] \in {43, 45}
        body == IF signed THEN Tail(t) ELSE t
        ok == body # <<>> /\ LeadDigits(body) = Len(body)
        n == IF ok THEN BigToInt(DigitsValue(<<>>, body)) ELSE 0
    IN  [ok |-> ok, val |-> IF signed /\ t[1] = 45 THEN -n ELSE n]

\* str.isdigit(), of a text of ASCII characters
isdigit(s) == s # <<>> /\ LeadDigits(s) = Len(s)

\* str.split(":")
RECURSIVE split_colon(_, _)
split_colon(s, part) ==
    IF s = <<>> THEN <<part>>
    ELSE IF Head(s) = 58 THEN <<part>> \o split_colon(Tail(s), <<>>)
    ELSE split_colon(Tail(s), Append(part, Head(s)))

\* parse_duration, had it known minutes and seconds only
parse_duration_two_parts(duration_str) ==
    LET parts == split_colon(duration_str.text, <<>>)
        p == [i \in 1 .. Len(parts) |-> int_parse(parts[i])]
    IN  CASE duration_str.tag = "int" -> ReturnedInt(duration_str.int)
          [] duration_str.tag = "str" /\ isdigit(duration_str.text) ->
                ReturnedInt(int_parse(duration_str.text).val)
          [] duration_str.tag = "str" /\ Len(parts) = 2 /\ p[1].ok /\ p[2].ok ->
                ReturnedInt(p[1].val * 60 + p[2].val)
          [] OTHER -> ReturnedInt(0)

\* parse_duration (lines 52-68): every exception gives 0. The text of a
\* float has no colon, so a float gives 0 whether it is falsy or not.
parse_duration(duration_str) ==
    LET parts == split_colon(duration_str.text, <<>>)
        p == [i \in 1 .. Len(parts) |-> int_parse(parts[i])]
    IN  CASE duration_str.tag = "int" -> ReturnedInt(duration_str.int)
          [] duration_str.tag = "str" /\ isdigit(duration_str.text) ->
                ReturnedInt(int_parse(duration_str.text).val)
          [] duration_str.tag \in {"none", "float", "nan", "inf"} -> ReturnedInt(0)
          [] duration_str.text = <<>> -> ReturnedInt(0)
          [] Len(parts) = 2 ->
                IF p[1].ok /\ p[2].ok THEN ReturnedInt(p[1].val * 60 + p[2].val)
                ELSE ReturnedInt(0)
          [] Len(parts) = 3 ->
                IF p[1].ok /\ p[2].ok /\ p[3].ok
                THEN ReturnedInt(p[1].val * 3600 + p[2].val * 60 + p[3].val)
                ELSE ReturnedInt(0)
          [] OTHER -> ReturnedInt(0)

\* The texts: up to MaxDurationChars of 1, 2, the colon, the minus sign and
\* a letter
DurationChars == {49, 50, 58, 45, 120}
DurationTexts == UNION {[1 .. n -> DurationChars] : n \in 0 .. MaxDurationChars}
DurationValues ==
    {PyNone, PyNaN, PyInf} \cup {PyInt(n) : n \in {-3, 0, 90}}
    \cup {PyFloat(n, h) : n \in {0, 3}, h \in BOOLEAN}
    \cup {PyStr(t) : t \in DurationTexts}

\* parse_duration(duration_str) is called
ParseDuration ==
    /\ utilIn.fn = "parse_duration" /\ utilOut.tag = "none"
    /\ utilOut' = parse_duration(utilIn.arg)
    /\ UNCHANGED <<crawlVars, offlineVars, httpVars, tableVars, utilIn, scoreVars, clsVars, recVars>>

(***************************************************************************)
(* spider/bilibili_api.py: normalize_from_detail                           *)
(***************************************************************************)
\* A key the dict does not have
PyAbsent == [tag |-> "absent", int |-> 0, half |-> FALSE, text |-> <<>>]

\* d.get(key) and d.get(key, default)
dict_get(field, default) == IF field.tag = "absent" THEN default ELSE field

\* bool(value)
truthy(value) ==
    CASE value.tag \in {"none", "absent"} -> FALSE
      [] value.tag = "int" -> value.int # 0
      [] value.tag = "float" -> value.int # 0 \/ value.half
      [] value.tag = "str" -> value.text # <<>>
      [] OTHER -> TRUE

\* (value or "").strip(): an int or a float has no strip
or_empty_strip(value) ==
    IF ~truthy(value) THEN PyStr(<<>>)
    ELSE IF value.tag = "str" THEN PyStr(strip(value.text))
    ELSE [tag |-> "AttributeError", int |-> 0, half |-> FALSE, text |-> <<>>]

\* What normalize_from_detail returns, in the keys modelled here
VideoDict(bvid, view, fav, tid, tname) ==
    [tag |-> "dict", bvid |-> bvid, view_count |-> view, favorite_count |-> fav,
     bili_tid |-> tid, bili_tname |-> tname]

\* normalize_from_detail, had it looked at the search item first
normalize_from_detail_search_first(detail, fallback_bili_tid, fallback_bili_tname) ==
    LET detail_tname == or_empty_strip(dict_get(detail.tname, PyNone))
        search_tname == or_empty_strip(fallback_bili_tname)
        detail_tid == parse_count(dict_get(detail.tid, PyInt(0)))
        search_tid == parse_count(IF truthy(fallback_bili_tid) THEN fallback_bili_tid
                                  ELSE PyInt(0))
    IN  VideoDict(detail.bvid, parse_count(PyInt(0)), parse_count(PyInt(0)),
                  IF search_tid.mag # <<>> THEN search_tid ELSE detail_tid,
                  IF search_tname.text # <<>> THEN search_tname.text ELSE detail_tname.text)

\* normalize_from_detail (lines 304-364), in the order of its statements:
\* the counts of stat, the category name, the category id. The first
\* exception leaves it.
normalize_from_detail(detail, fallback_bili_tid, fallback_bili_tname) ==
    LET view == parse_count(dict_get(detail.stat_view, PyInt(0)))
        fav == parse_count(dict_get(detail.stat_favorite, PyInt(0)))
        detail_tname == or_empty_strip(dict_get(detail.tname, PyNone))
        search_tname == or_empty_strip(fallback_bili_tname)
        bili_tname == IF detail_tname.text # <<>> THEN detail_tname.text
                      ELSE search_tname.text
        detail_tid == parse_count(dict_get(detail.tid, PyInt(0)))
        search_tid == parse_count(IF truthy(fallback_bili_tid) THEN fallback_bili_tid
                                  ELSE PyInt(0))
        bili_tid == IF detail_tid.mag # <<>> THEN detail_tid ELSE search_tid
    IN  IF view.tag # "int" THEN Raised(view.tag)
        ELSE IF fav.tag # "int" THEN Raised(fav.tag)
        ELSE IF detail_tname.tag # "str" THEN Raised(detail_tname.tag)
        ELSE IF search_tname.tag # "str" THEN Raised(search_tname.tag)
        ELSE IF detail_tid.tag # "int" THEN Raised(detail_tid.tag)
        ELSE IF search_tid.tag # "int" THEN Raised(search_tid.tag)
        ELSE VideoDict(detail.bvid, view, fav, bili_tid, bili_tname)

\* The category names: none, blanks, a name, a name between blanks, another
CategoryNames == {<<>>, <<32>>, <<120>>, <<32, 120, 32>>, <<121>>}
Details ==
    [bvid : {"BV1"},
     stat_view : {PyAbsent, PyInt(100), PyStr(<<50, 46, 51, 19975>>)},
     stat_favorite : {PyAbsent, PyInt(5)},
     tname : {PyAbsent, PyNone, PyInt(0), PyInt(5)} \cup {PyStr(t) : t \in CategoryNames},
     tid : {PyAbsent, PyNone, PyNaN, PyInt(0), PyInt(208), PyStr(<<>>), PyStr(<<51>>)}]
NormalizeArgs ==
    [detail : Details,
     fallback_bili_tid : {PyInt(0), PyInt(7), PyNone},
     fallback_bili_tname : {PyNone} \cup {PyStr(t) : t \in CategoryNames}]

\* normalize_from_detail(detail, ...) is called
NormalizeFromDetail ==
    /\ utilIn.fn = "normalize_from_detail" /\ utilOut.tag = "none"
    /\ utilOut' = normalize_from_detail(utilIn.arg.detail, utilIn.arg.fallback_bili_tid,
                                        utilIn.arg.fallback_bili_tname)
    /\ UNCHANGED <<crawlVars, offlineVars, httpVars, tableVars, utilIn, scoreVars, clsVars, recVars>>

InitUtils ==
    /\ CrawlInit /\ stored = {} /\ enrichments = {} /\ EnrichIdle /\ TableIdle /\ HttpIdle
    /\ \/ utilIn \in [fn : {"parse_count"}, arg : CountValues]
       \/ utilIn \in [fn : {"parse_duration"}, arg : DurationValues]
       \/ utilIn \in [fn : {"normalize_from_detail"}, arg : NormalizeArgs]
    /\ utilOut = NotReturned
    /\ ScoreIdle /\ ClsIdle /\ RecIdle

NextUtils == ParseCount \/ ParseDuration \/ NormalizeFromDetail

SpecUtils == InitUtils /\ [][NextUtils]_vars

(***************************************************************************)
(* Properties of parse_count, parse_duration and normalize_from_detail     *)
(***************************************************************************)
\* A non-empty row of decimal digits
Numeral(s) == s # <<>> /\ \A i \in 1 .. Len(s) : IsDigit(s[i])
NumeralInt(s) == BigToInt(DigitsValue(<<>>, s))
HasChar(s, c) == \E i \in 1 .. Len(s) : s[i] = c
CountOfChar(s, c) == Cardinality({i \in 1 .. Len(s) : s[i] = c})

\* C13: parse_count returns 0 for None, "", "-" and unparseable text, n for
\* the integer n and for the digits of n, the exact product d * 10^4 or
\* d * 10^8 cut to an integer for a decimal d with a unit, and never raises
\* (for None, integers and texts).
C13_ParseCount ==
    (utilIn.fn = "parse_count" /\ utilOut.tag # "none"
       /\ utilIn.arg.tag \in {"none", "int", "str"}) =>
        LET value == utilIn.arg
            exact == parse_count_exact(value)
        IN  /\ utilOut.tag = "int"
            /\ value.tag = "none" => utilOut = ReturnedInt(0)
            /\ value.tag = "int" => utilOut = ReturnedInt(value.int)
            /\ (value.tag = "str" /\ value.text \in {<<>>, <<45>>}) => utilOut = ReturnedInt(0)
            /\ (value.tag = "str" /\ HasChar(value.text, 120)) => utilOut = ReturnedInt(0)
            /\ (value.tag = "str" /\ exact.tag = "int") => utilOut = exact

\* C14: parse_duration returns 60*m + s for "m:s", 3600*h + 60*m + s for
\* "h:m:s", the integer for an integer or a row of digits, 0 for None, for
\* the empty text, for a text with a character that is no digit, colon or
\* sign, with an empty part, with one part that is no row of digits or with
\* more than three parts; and it never raises.
C14_ParseDuration ==
    (utilIn.fn = "parse_duration" /\ utilOut.tag # "none") =>
        LET value == utilIn.arg
            t == value.text
            n == Len(t)
        IN  /\ utilOut.tag = "int"
            /\ value.tag = "int" => utilOut = ReturnedInt(value.int)
            /\ value.tag = "none" => utilOut = ReturnedInt(0)
            /\ value.tag = "str" =>
                /\ Numeral(t) => utilOut = ReturnedInt(NumeralInt(t))
                /\ \A i \in 1 .. n :
                       (t[i] = 58 /\ Numeral(SubSeq(t, 1, i - 1)) /\ Numeral(SubSeq(t, i + 1, n)))
                       => utilOut = ReturnedInt(60 * NumeralInt(SubSeq(t, 1, i - 1))
                                                + NumeralInt(SubSeq(t, i + 1, n)))
                /\ \A i \in 1 .. n : \A j \in (i + 1) .. n :
                       (/\ t[i] = 58 /\ t[j] = 58
                        /\ Numeral(SubSeq(t, 1, i - 1))
                        /\ Numeral(SubSeq(t, i + 1, j - 1))
                        /\ Numeral(SubSeq(t, j + 1, n)))
                       => utilOut = ReturnedInt(3600 * NumeralInt(SubSeq(t, 1, i - 1))
                                                + 60 * NumeralInt(SubSeq(t, i + 1, j - 1))
                                                + NumeralInt(SubSeq(t, j + 1, n)))
                /\ (\/ t = <<>>
                    \/ HasChar(t, 120)
                    \/ CountOfChar(t, 58) > 2
                    \/ (CountOfChar(t, 58) = 0 /\ ~Numeral(t))
                    \/ (n > 0 /\ (t[1] = 58 \/ t[n] = 58))
                    \/ \E i \in 1 .. (n - 1) : t[i] = 58 /\ t[i + 1] = 58)
                   => utilOut = ReturnedInt(0)

\* "1:2:2" gave 3722
C14_Witness ==
    /\ utilIn.fn = "parse_duration"
    /\ utilIn.arg = PyStr(<<49, 58, 50, 58, 50>>)
    /\ utilOut = ReturnedInt(3722)

\* The category name of a detail field, trimmed; empty when it has none
TrimmedName(field) == IF field.tag = "str" THEN strip(field.text) ELSE <<>>
\* The category id of a field that is absent, None, an int or a row of digits
IdOf(field) ==
    IF field.tag = "int" THEN field.int
    ELSE IF field.tag = "str" /\ Numeral(field.text) THEN NumeralInt(field.text)
    ELSE 0

\* C15: the record normalize_from_detail returns has the detail's category
\* name when that is non-empty after trimming and otherwise the search
\* item's, and the detail's category id when that is non-zero and otherwise
\* the search item's.
C15_CategoryFallback ==
    (utilIn.fn = "normalize_from_detail" /\ utilOut.tag = "dict") =>
        LET detail == utilIn.arg.detail
            dn == TrimmedName(detail.tname)
            did == IdOf(detail.tid)
        IN  /\ utilOut.bili_tname = IF dn # <<>> THEN dn
                                    ELSE TrimmedName(utilIn.arg.fallback_bili_tname)
            /\ utilOut.bili_tid = ReturnedInt(IF did # 0 THEN did
                                              ELSE IdOf(utilIn.arg.fallback_bili_tid))

\* A detail with a blank name and the id 0, a search item with the name "x"
\* and the id 7: the record has the search item's name and id
C15_Witness ==
    /\ utilIn.fn = "normalize_from_detail"
    /\ utilOut.tag = "dict"
    /\ utilIn.arg.detail.tname = PyStr(<<32>>)
    /\ utilIn.arg.detail.tid = PyInt(0)
    /\ utilIn.arg.fallback_bili_tname = PyStr(<<120>>)
    /\ utilIn.arg.fallback_bili_tid = PyInt(7)
    /\ utilOut.bili_tname = <<120>>
    /\ utilOut.bili_tid = ReturnedInt(7)

(***************************************************************************)
(* spider/bilibili_api.py: request_bili_data over the session crawl makes  *)
(* (lines 488-490): requests with urllib3's Retry mounted on https://      *)
(***************************************************************************)
\* Retry(total=3, backoff_factor=1, status_forcelist=[500, 502, 503, 504])
RETRY_TOTAL == 3
BACKOFF_FACTOR == 1
status_forcelist == {500, 502, 503, 504}
\* Retry.RETRY_AFTER_STATUS_CODES of urllib3
RETRY_AFTER_STATUS_CODES == {413, 429, 503}

\* What a GET meets: no response (connection or read error), or a response
\* with its status, whether it has a Retry-After header, and its body: JSON
\* with "code" 0, JSON with another code, or no JSON
NoResponseError == [kind |-> "error", status |-> 0, retry_after |-> FALSE, body |-> "none"]
HttpResponse(status_code, has_retry_after, body) ==
    [kind |-> "response", status |-> status_code, retry_after |-> has_retry_after,
     body |-> body]
HttpOutcomes ==
    {NoResponseError}
    \cup {HttpResponse(200, FALSE, b) : b \in {"code_0", "code_nonzero", "not_json"}}
    \cup {HttpResponse(st, ra, "not_json") :
            st \in {404, 412, 429, 500, 502, 503, 504}, ra \in BOOLEAN}

\* Retry.is_retry for a GET (total is not 0, respect_retry_after_header is
\* on)
is_retry(status_code, has_retry_after) ==
    \/ status_code \in status_forcelist
    \/ (has_retry_after /\ status_code \in RETRY_AFTER_STATUS_CODES)

\* Retry.sleep after the k-th failure in a row: the Retry-After of the
\* response if it has one, else backoff_factor * 2^(k-1), nothing after the
\* first
retry_sleep(resp, k) ==
    IF resp.kind = "response" /\ resp.retry_after THEN "retry_after"
    ELSE IF k <= 1 THEN 0 ELSE BACKOFF_FACTOR * 2 ^ (k - 1)

\* request_bili_data, lines 186-192, on the response session.get returned
response_outcome(resp) ==
    IF resp.status >= 400 THEN "HTTPError"
    ELSE IF resp.body = "not_json" THEN "JSONDecodeError"
    ELSE IF resp.body = "code_nonzero" THEN "RuntimeError"
    ELSE "data"

\* request_bili_data is called
RequestBiliData ==
    /\ httpOut \notin {"idle", "pending"}
    /\ httpHistory' = <<>>
    /\ httpSleeps' = <<>>
    /\ httpOut' = "pending"
    /\ UNCHANGED <<crawlVars, offlineVars, tableVars, utilVars, scoreVars, clsVars, recVars>>

\* One GET of the call, line 185: the transport retries it while Retry
\* allows, else request_bili_data goes on with the response or the
\* exception
HttpGet ==
    /\ httpOut = "pending"
    /\ \E resp \in HttpOutcomes :
        LET history == Append(httpHistory, resp)
            failed == resp.kind = "error" \/ is_retry(resp.status, resp.retry_after)
            exhausted == Len(history) > RETRY_TOTAL
        IN  /\ httpHistory' = history
            /\ httpSleeps' = IF failed /\ ~exhausted
                             THEN Append(httpSleeps, retry_sleep(resp, Len(history)))
                             ELSE httpSleeps
            /\ httpOut' = IF failed
                          THEN IF ~exhausted THEN "pending"
                               ELSE IF resp.kind = "error" THEN "ConnectionError"
                               ELSE "RetryError"
                          ELSE response_outcome(resp)
    /\ UNCHANGED <<crawlVars, offlineVars, tableVars, utilVars, scoreVars, clsVars, recVars>>

InitHttp ==
    /\ CrawlInit /\ stored = {} /\ enrichments = {} /\ EnrichIdle /\ TableIdle /\ UtilIdle
    /\ httpHistory = <<>> /\ httpSleeps = <<>> /\ httpOut = "pending"
    /\ ScoreIdle /\ ClsIdle /\ RecIdle

NextHttp == RequestBiliData \/ HttpGet

SpecHttp == InitHttp /\ [][NextHttp]_vars

\* The statuses the transport is to retry
RetriedStatuses == {429, 500, 502, 503, 504}

\* C17: a GET that meets status 429, 500, 502, 503 or 504 is tried again
\* after a wait while attempts remain, the call makes at most
\* RETRY_TOTAL + 1 attempts and then raises; a 200 response with a non-zero
\* code is never tried again and the call raises for it.
C17_RetryPolicy ==
    LET n == Len(httpHistory)
    IN  /\ n <= RETRY_TOTAL + 1
        /\ Len(httpSleeps) = IF httpOut = "pending" THEN n ELSE n - 1
        /\ \A i \in 1 .. (n - 1) :
              ~(httpHistory[i].status = 200 /\ httpHistory[i].body = "code_nonzero")
        /\ (httpOut \notin {"idle", "pending"} /\ httpHistory[n].kind = "response") =>
              /\ httpHistory[n].status \in RetriedStatuses =>
                    (n = RETRY_TOTAL + 1 /\ httpOut = "RetryError")
              /\ (httpHistory[n].status = 200 /\ httpHistory[n].body = "code_nonzero") =>
                    httpOut = "RuntimeError"

(***************************************************************************)
(* spider/bilibili_api.py: one page iteration of crawl (lines 517-639),    *)
(* from its delay to the saving of its batch                               *)
(***************************************************************************)
\* most items of the page
MaxPageItems == 2
PageBvids == {"BV1", "BV2"}

\* CRAWL_DELAY_RANGE and DETAIL_DELAY_RANGE, in milliseconds
CRAWL_DELAY_RANGE == <<1800, 3500>>
DETAIL_DELAY_RANGE == <<400, 900>>
delay_range(name) == IF name = "crawl" THEN CRAWL_DELAY_RANGE ELSE DETAIL_DELAY_RANGE

\* random.random() gives r / RandomSteps, r in 0 .. RandomSteps - 1
RandomSteps == 4
\* random.uniform, had it scaled the upper end and not the width
uniform_scales_end(range, r) == range[1] + (range[2] * r) \div RandomSteps
\* random.uniform(a, b): a + (b - a) * random()
uniform(range, r) == range[1] + ((range[2] - range[1]) * r) \div RandomSteps

\* What random() gives call after call: the least all along, the most all
\* along, or mixed
RandomStreams ==
    {[i \in 1 .. (1 + 2 * (MaxPageItems + 1)) |-> 0],
     [i \in 1 .. (1 + 2 * (MaxPageItems + 1)) |-> RandomSteps - 1],
     [i \in 1 .. (1 + 2 * (MaxPageItems + 1)) |-> (3 * i) % RandomSteps]}

\* The delays slept, in order: the i-th sleep takes the i-th sample
RECURSIVE delays_of(_, _)
delays_of(events, random) ==
    IF events = <<>> THEN <<>>
    ELSE IF Head(events).ev = "sleep"
    THEN <<[of |-> Head(events).of, ms |-> uniform(delay_range(Head(events).of), Head(random))]>>
         \o delays_of(Tail(events), Tail(random))
    ELSE delays_of(Tail(events), random)

\* The pages: the items the search gave, the flags of the run, what the
\* caches hold of earlier pages, and the samples of random()
PageInputs ==
    [items : UNION {[1 .. n -> PageBvids \cup {NoBvid}] : n \in 1 .. MaxPageItems},
     fetch_detail : BOOLEAN, fetch_tags : BOOLEAN, save_to_db : BOOLEAN,
     dc : {[i \in PageBvids |-> "none"], [i \in PageBvids |-> IF i = "BV1" THEN "ok" ELSE "none"]},
     tc : {[i \in PageBvids |-> "none"]},
     random : RandomStreams]

\* One page iteration whose search gave items: they are processed in order
\* and the batch is saved
ProcessPage ==
    /\ utilIn.fn = "page" /\ utilOut.tag = "none"
    /\ \E a \in items_loop({page_start(utilIn.arg.dc, utilIn.arg.tc,
                                       [i \in PageBvids |-> 0], [i \in PageBvids |-> 0])},
                           utilIn.arg.items, utilIn.arg.fetch_detail,
                           utilIn.arg.fetch_tags, 0, 1, 1) :
         \E sv \in IF a.raised THEN {"skip"}
                   ELSE SaveOutcomes(utilIn.arg.save_to_db, a.batch) :
            utilOut' = [tag |-> "page", acc |-> a, sv |-> sv,
                        db |-> save_to_mysql({}, a.batch, sv),
                        delays |-> delays_of(a.events, utilIn.arg.random)]
    /\ UNCHANGED <<crawlVars, offlineVars, httpVars, tableVars, utilIn, scoreVars, clsVars, recVars>>

InitPage ==
    /\ CrawlInit /\ stored = {} /\ enrichments = {} /\ EnrichIdle /\ TableIdle /\ HttpIdle
    /\ utilIn \in [fn : {"page"}, arg : PageInputs]
    /\ utilOut = NotReturned
    /\ ScoreIdle /\ ClsIdle /\ RecIdle

NextPage == ProcessPage

SpecPage == InitPage /\ [][NextPage]_vars

\* The identifiers of the items of the page, in order
ItemIds == SelectSeq(utilIn.arg.items, LAMBDA b : b # NoBvid)

\* C21: on a page none of whose items raises by what it holds, whatever
\* detail and tag requests fail, batch_data has one record per item with an
\* identifier, in order; the record of an item whose detail is cached empty
\* is built from the search item, the record of an item whose tags are
\* cached empty has no tag names; and the batch saved is that batch.
C21_PartialFailureKeepsPage ==
    (utilIn.fn = "page" /\ utilOut.tag = "page" /\ ~utilOut.acc.malformed) =>
        LET a == utilOut.acc
        IN  /\ ~a.raised
            /\ a.batch = ItemIds
            /\ Len(a.recs) = Len(ItemIds)
            /\ \A i \in 1 .. Len(a.recs) :
                  /\ a.recs[i].bvid = ItemIds[i]
                  /\ (utilIn.arg.fetch_detail /\ a.dc[ItemIds[i]] = "empty")
                        => a.recs[i].built_from = "search"
                  /\ (utilIn.arg.fetch_tags /\ a.tc[ItemIds[i]] = "empty")
                        => a.recs[i].tag_names = ""
            /\ utilOut.sv = "ok" => utilOut.db = Range(ItemIds)

\* C21 witness: of two items the first one's detail request raised and its
\* tag request gave nothing, the second one's succeeded, and the batch of
\* both was saved
C21_Witness ==
    /\ utilIn.fn = "page" /\ utilOut.tag = "page"
    /\ utilIn.arg.items = <<"BV1", "BV2">>
    /\ \E i \in 1 .. Len(utilOut.acc.reps) : utilOut.acc.reps[i].kind = "detail_fail"
    /\ Len(utilOut.acc.recs) = 2
    /\ utilOut.acc.recs[1].built_from = "search" /\ utilOut.acc.recs[1].tag_names = ""
    /\ utilOut.acc.recs[2].built_from = "detail" /\ utilOut.acc.recs[2].tag_names = "names"
    /\ utilOut.sv = "ok" /\ utilOut.db = {"BV1", "BV2"}

\* C25: every search request comes right after a sleep of the page delay,
\* every detail and tag request right after a sleep of the detail delay, a
\* sleep of its own; and every delay slept lies within its range.
C25_Delays ==
    (utilIn.fn = "page" /\ utilOut.tag = "page") =>
        LET events == utilOut.acc.events
        IN  /\ \A i \in 1 .. Len(events) :
                  events[i].ev = "request" =>
                      /\ i > 1
                      /\ events[i - 1] = Sleep(IF events[i].of = "search" THEN "crawl"
                                               ELSE "detail")
            /\ Cardinality({i \in 1 .. Len(events) : events[i].ev = "sleep"})
                   = Len(utilOut.delays)
            /\ \A i \in 1 .. Len(utilOut.delays) :
                  LET d == utilOut.delays[i]
                  IN  IF d.of = "crawl" THEN d.ms >= 1800 /\ d.ms <= 3500
                      ELSE d.ms >= 400 /\ d.ms <= 900

\* C25 witness: a search, a detail and a tag request were made, with the
\* delays 3075 ms, 775 ms and 775 ms
C25_Witness ==
    /\ utilIn.fn = "page" /\ utilOut.tag = "page"
    /\ Len(utilOut.acc.events) = 6
    /\ utilOut.acc.events[2] = Request("search")
    /\ utilOut.acc.events[4] = Request("detail")
    /\ utilOut.acc.events[6] = Request("tags")
    /\ utilOut.delays = <<[of |-> "crawl", ms |-> 3075], [of |-> "detail", ms |-> 775],
                          [of |-> "detail", ms |-> 775]>>


(***************************************************************************)
(* spider/bilibili_api.py: build_wbi_mixin_key, one call                   *)
(***************************************************************************)
\* longest key fragment
MaxKeyChars == 65

\* A key fragment of n characters other than those of Key(n)
SubKey(n) == [i \in 1 .. n |-> 2000 + i]

\* The fragments of a call: None, or a string of 0, 31, 32, 33 or 63 to
\* MaxKeyChars characters
FragmentLens == {0, 31, 32, 33} \cup (63 .. MaxKeyChars)
KeyInputs ==
    [img_key : {PyNone} \cup {PyStr(Key(n)) : n \in FragmentLens},
     sub_key : {PyNone} \cup {PyStr(SubKey(n)) : n \in FragmentLens}]

\* (key or ""), line 226
or_empty(key) == IF key.tag = "str" THEN key.text ELSE <<>>

\* build_wbi_mixin_key(img_key, sub_key), lines 212-229
BuildWbiMixinKey ==
    /\ utilIn.fn = "build_wbi_mixin_key" /\ utilOut.tag = "none"
    /\ utilOut' = [tag |-> "key",
                   key |-> build_wbi_mixin_key(or_empty(utilIn.arg.img_key),
                                               or_empty(utilIn.arg.sub_key))]
    /\ UNCHANGED <<crawlVars, offlineVars, httpVars, tableVars, utilIn, scoreVars, clsVars, recVars>>

InitKey ==
    /\ CrawlInit /\ stored = {} /\ enrichments = {} /\ EnrichIdle /\ TableIdle /\ HttpIdle
    /\ utilIn \in [fn : {"build_wbi_mixin_key"}, arg : KeyInputs]
    /\ utilOut = NotReturned
    /\ ScoreIdle /\ ClsIdle /\ RecIdle

NextKey == BuildWbiMixinKey

SpecKey == InitKey /\ [][NextKey]_vars

\* The fragment is missing: None or ""
FragmentAbsent(key) == or_empty(key) = <<>>

\* C26: the table has 64 entries, a permutation of 0 .. 63. For fragments
\* whose concatenation c has at least 64 characters the key has 32
\* characters, the i-th of which is the character of c at the i-th entry of
\* the table; when a fragment is missing, or c has fewer than 64
\* characters, the key is empty.
C26_MixinKey ==
    (utilIn.fn = "build_wbi_mixin_key" /\ utilOut.tag = "key") =>
        LET c == or_empty(utilIn.arg.img_key) \o or_empty(utilIn.arg.sub_key)
            key == utilOut.key
        IN  /\ Len(mixin_key_enc_tab) = 64
            /\ Range(mixin_key_enc_tab) = 0 .. 63
            /\ Len(c) >= 64 =>
                  /\ Len(key) = 32
                  /\ \A i \in 1 .. 32 : key[i] = c[mixin_key_enc_tab[i] + 1]
            /\ (\/ FragmentAbsent(utilIn.arg.img_key)
                \/ FragmentAbsent(utilIn.arg.sub_key)
                \/ Len(c) < 64) => key = <<>>


(***************************************************************************)
(* core/process_videos.py: process_videos                                  *)
(***************************************************************************)
\* most rows of table videos
MaxPassRows == 2
\* most runs of process_videos
MaxPasses == 2

RECOMMEND_THRESHOLD == 60

\* The identifiers of table videos, in the order of its primary key
VideoIds == <<"BV1", "BV2", "BV3">>
PassIds == {VideoIds[i] : i \in 1 .. MaxPassRows}

\* A row of table videos as the ORM gives it (class Video): a column is
\* NULL (None) or has a value; the publish date is None or a naive datetime,
\* here by its age in days
OrmVideo(title, view, fav, like, coin, duration, pubdate, up_name) ==
    [title |-> title, tags |-> Null, desc |-> Null,
     view_count |-> view, favorite_count |-> fav, like_count |-> like,
     coin_count |-> coin, duration |-> duration, pubdate |-> pubdate,
     up_name |-> up_name]
NaiveDatetime(days_ago) == [tag |-> "datetime_naive", val |-> days_ago]
OrmVideos ==
    {OrmVideo(StrV(<<26497, 38480>>), IntV(100), IntV(1), IntV(5), IntV(1), IntV(300),
              NaiveDatetime(180), StrV(<<23435, 28009, 32769, 24072>>)),
     OrmVideo(Null, Null, Null, Null, Null, Null, Null, Null),
     OrmVideo(StrV(<<26446, 27704, 20048, 32771, 30740>>), IntV(0), IntV(0), IntV(0),
              IntV(0), IntV(9000), NaiveDatetime(1095), StrV(<<122, 122>>))}

\* (column or "") and (column or 0), lines 84-99
or_text(column) == IF column.tag = "null" THEN <<>> ELSE column.val
or_zero(column) == IF column.tag = "null" THEN IntV(0) ELSE column

\* video_dict, lines 92-100
video_dict(video) ==
    [view_count |-> or_zero(video.view_count),
     favorite_count |-> or_zero(video.favorite_count),
     like_count |-> or_zero(video.like_count),
     coin_count |-> or_zero(video.coin_count),
     duration |-> or_zero(video.duration),
     pubdate |-> video.pubdate,
     up_name |-> StrV(or_text(video.up_name))]

\* ",".join(topics)
RECURSIVE join_comma(_)
join_comma(topics) ==
    IF topics = <<>> THEN <<>>
    ELSE IF Len(topics) = 1 THEN topics[1]
    ELSE topics[1] \o <<44>> \o join_comma(Tail(topics))

\* Lines 83-102: what a pass computes of a video. The score is in
\* hundredths; raised: scorer.score raised
derived_fields(video) ==
    LET c == classify_with_subject(or_text(video.title), or_text(video.tags),
                                   or_text(video.desc))
        quality_score == score(video_dict(video))
    IN  [subject |-> c[3], topics |-> join_comma(c[1]), difficulty |-> c[2],
         quality_score |-> quality_score.val,
         recommended |-> quality_score.val >= RECOMMEND_THRESHOLD * 100,
         raised |-> quality_score.tag # "ok"]

\* derived_fields of the rows of the model, computed once
derived_of == [video \in OrmVideos |-> derived_fields(video)]

EnrichFields == {"subject", "topics", "difficulty", "quality_score", "recommended"}

\* enrich_row, had the row of an identifier that has one kept its flag
enrich_row_keeps_flag(rows, id, d, pass) ==
    IF id \in DOMAIN rows
    THEN [subject |-> d.subject, topics |-> d.topics, difficulty |-> d.difficulty,
          quality_score |-> d.quality_score, recommended |-> rows[id].recommended,
          written |-> [f \in EnrichFields |->
                          IF f = "recommended" THEN rows[id].written[f] ELSE pass]]
    ELSE [subject |-> d.subject, topics |-> d.topics, difficulty |-> d.difficulty,
          quality_score |-> d.quality_score, recommended |-> d.recommended,
          written |-> [f \in EnrichFields |-> pass]]

\* Lines 106-114: the row of the identifier, found or made, gets the five
\* fields; written is the pass that wrote each
enrich_row(rows, id, d, pass) ==
    [subject |-> d.subject, topics |-> d.topics, difficulty |-> d.difficulty,
     quality_score |-> d.quality_score, recommended |-> d.recommended,
     written |-> [f \in EnrichFields |-> pass]]

\* Lines 81-114: the videos of a batch in order, in the session
RECURSIVE enrich_batch(_, _, _, _)
enrich_batch(rows, videos, ids, pass) ==
    IF ids = <<>> THEN rows
    ELSE LET id == Head(ids)
             row == enrich_row(rows, id, derived_of[videos[id]], pass)
         IN  enrich_batch([k \in DOMAIN rows \cup {id} |-> IF k = id THEN row ELSE rows[k]],
                          videos, Tail(ids), pass)

\* Video.query.offset(offset).limit(batch_size).all(), the rows in the order
\* of the primary key
query_offset_limit(videos, offset, batch_size) ==
    LET order == SelectSeq(VideoIds, LAMBDA id : id \in DOMAIN videos)
    IN  SubSeq(order, offset + 1, Min(Len(order), offset + batch_size))

\* Lines 75-135: the batches from offset on. A batch is computed, written
\* in the session and committed; scorer.score raising, or the commit of
\* batch fail_at raising, leaves the run with what was committed before.
RECURSIVE process_batches(_, _, _, _, _, _, _, _)
process_batches(rows, videos, offset, total, batch_size, dry_run, fail_at, pass) ==
    LET ids == query_offset_limit(videos, offset, batch_size)
        raises == \E i \in 1 .. Len(ids) : derived_of[videos[ids[i]]].raised
        commit_fails == ~dry_run /\ fail_at = (offset \div batch_size) + 1
    IN  IF offset >= total \/ ids = <<>> THEN [rows |-> rows, completed |-> TRUE]
        ELSE IF raises \/ commit_fails THEN [rows |-> rows, completed |-> FALSE]
        ELSE process_batches(IF dry_run THEN rows ELSE enrich_batch(rows, videos, ids, pass),
                             videos, offset + batch_size, total, batch_size, dry_run,
                             fail_at, pass)

\* process_videos(batch_size, dry_run), lines 38-146
ProcessVideos ==
    /\ passes < MaxPasses
    /\ \E batch_size \in 1 .. MaxPassRows, dry_run \in BOOLEAN, fail_at \in 0 .. MaxPassRows :
         LET total == Cardinality(DOMAIN videoRows)
             run == process_batches(enrichRows, videoRows, 0, total, batch_size, dry_run,
                                    fail_at, passes + 1)
         IN  /\ enrichRows' = run.rows
             /\ lastRun' = [ran |-> TRUE, wrote |-> run.rows # enrichRows,
                            completed |-> run.completed]
    /\ passes' = passes + 1
    /\ UNCHANGED <<crawlVars, enrichments, videoRows, httpVars, tableVars, utilVars,
                   scoreVars, clsVars, recVars>>

\* A row of table videos is inserted, or replaced by the upsert of another
\* crawl of the video (the tables are followed up to the last run)
StoreVideo ==
    /\ passes < MaxPasses
    /\ \E id \in PassIds, video \in OrmVideos :
         /\ id \in DOMAIN videoRows => videoRows[id] # video
         /\ videoRows' = [k \in DOMAIN videoRows \cup {id} |->
                             IF k = id THEN video ELSE videoRows[k]]
    /\ lastRun' = NoRun
    /\ UNCHANGED <<crawlVars, enrichments, enrichRows, passes, httpVars, tableVars,
                   utilVars, scoreVars, clsVars, recVars>>

InitEnrich ==
    /\ CrawlInit /\ stored = {} /\ enrichments = {} /\ EnrichIdle
    /\ TableIdle /\ UtilIdle /\ HttpIdle
    /\ ScoreIdle /\ ClsIdle /\ RecIdle

NextEnrich == ProcessVideos \/ StoreVideo

SpecEnrich == InitEnrich /\ [][NextEnrich]_vars

\* C29: after a run of process_videos that wrote, every row of
\* video_enrichments has its row in videos; its flag is set exactly when
\* its score is 60 or more; its five fields were written by one and the
\* same pass; the fields written by this run are those of the row of
\* videos as it is; and a run that came to its end has written every row.
C29_EnrichmentRecomputed ==
    (lastRun.ran /\ lastRun.wrote) =>
        \A k \in DOMAIN enrichRows :
            LET e == enrichRows[k]
            IN  /\ k \in DOMAIN videoRows
                /\ e.recommended <=> e.quality_score >= 6000
                /\ \A f, g \in EnrichFields : e.written[f] = e.written[g]
                /\ e.written["subject"] = passes =>
                      \A f \in EnrichFields : e[f] = derived_of[videoRows[k]][f]
                /\ lastRun.completed => e.written["subject"] = passes

\* C29 witness: the second run, which came to its end, has written two
\* rows, one recommended and one not
C29_Witness ==
    /\ lastRun.ran /\ lastRun.wrote /\ lastRun.completed /\ passes = 2
    /\ DOMAIN enrichRows = {"BV1", "BV2"}
    /\ enrichRows["BV1"].recommended /\ ~enrichRows["BV2"].recommended
    /\ enrichRows["BV1"].quality_score = 8700
    /\ enrichRows["BV2"].subject = SUBJECTS[2]

=============================================================================
